---- MODULE Spec2Model ----
(***************************************************************************)
(* Model of the lunalight client's authentication token lifecycle:         *)
(*   - tokenService (in-memory triple, listeners, refresh flag and queue), *)
(*   - authenticatedFetch (bearer header, one refresh + retry on 401),     *)
(*   - AuthProvider (initialisation, listener, logout, redirect callback), *)
(*   - ProtectedRoute (the two token checks run on navigation).            *)
(*                                                                         *)
(* Granularity: JavaScript runs a task to completion, so one action is the *)
(* code between two network awaits.  The continuations of the callers     *)
(* that awaited refreshAccessToken() run in the microtasks of the task     *)
(* that settled the refresh, so they belong to the settling action.        *)
(***************************************************************************)
EXTENDS Integers, Sequences, FiniteSets, TLC

\* ---------------------------------------------------------------- bounds
NProcs == 2        \* callers; each runs one operation, all may overlap
NTokens == 2       \* successful refresh responses the server gives in a run

\* ------------------------------------------------------------- constants
Null == 0                       \* JavaScript null
Provider == 0                   \* the AuthProvider's own proactive-refresh task
Callers == 1..NProcs
Procs == 0..NProcs
SessionToken == 1               \* a cookie token whose payload decodes to the shop domain
OpaqueToken == 2                \* a cookie token whose payload cannot be decoded
CookieTokens == {SessionToken, OpaqueToken}
Shop == 1                       \* the one shop domain of the session

EmptyTokens == [accessToken |-> Null, refreshToken |-> Null, shopDomain |-> Null]

VARIABLES
    variant,                 \* which of the two tokenService sources is built
    tokens,                  \* tokenService: in-memory triple
    isRefreshing,            \* tokenService: refresh flag
    refreshQueue,            \* tokenService: callers waiting for the refresh
    listening,               \* the AuthProvider's token listener is subscribed
    cookies,                 \* browser cookies set by the server
    mounted,                 \* AuthProvider's mount effects have run
    onAuthRedirect,          \* authenticated-fetch: callback registered
    auth,                    \* AuthProvider state
    proactiveRefreshStarted, \* AuthProvider ref
    refreshAttempted,        \* ProtectedRoute ref
    issued,                  \* tokens the refresh endpoint has issued so far
    proc,                    \* per caller: operation, position and locals
    request,                 \* proxy: the incoming request
    response,                \* proxy: the NextResponse it returned
    tokenChangeListeners,    \* tokenService: the subscribed listeners
    heard,                   \* per listener: the triples it was called with
    call,                    \* tokenService: the most recent store call
    liquidFiles,             \* ThemePreview prop: <<path, content>> in key order
    colorScheme,             \* ThemePreview prop
    brandName,               \* ThemePreview prop
    device,                  \* ThemePreview state: the selected viewport
    renders,                 \* calls of generatePreviewHtml so far
    outputs,                 \* the distinct strings those calls returned
    wizard                   \* WizardProvider: state, storage and timers

\* The state of the token lifecycle (tokenService, authenticatedFetch,
\* AuthProvider, ProtectedRoute).
authVars == <<variant, tokens, isRefreshing, refreshQueue, listening,
              cookies, mounted, onAuthRedirect, auth, proactiveRefreshStarted,
              refreshAttempted, issued, proc>>

\* The state of the components that run apart from the token lifecycle.
proxyVars == <<request, response>>

storeVars == <<tokenChangeListeners, heard, call>>

previewProps == <<liquidFiles, colorScheme, brandName>>

previewVars == <<previewProps, device, renders, outputs>>

side == <<proxyVars, storeVars, previewVars, wizard>>

\* The token lifecycle without the triple itself.
lifecycleVars == <<variant, isRefreshing, refreshQueue, listening, cookies,
                   mounted, onAuthRedirect, auth, proactiveRefreshStarted,
                   refreshAttempted, issued, proc>>

vars == <<authVars, side>>

\* ------------------------------------------------------------ tokenService

hasTokensAlways(t) == TRUE

hasTokens(t) == t.accessToken # Null

hasRefreshToken(t) == t.refreshToken # Null

hasValidTokenStateStrict(t) == t.refreshToken # Null

hasValidTokenState(t) ==
    IF t.accessToken = Null /\ t.refreshToken = Null THEN TRUE
    ELSE IF t.accessToken # Null /\ t.refreshToken = Null THEN FALSE
    ELSE TRUE

\* The AuthProvider's token-change listener: the new provider state.
Listener(a, t) ==
    IF t.accessToken = Null /\ t.refreshToken = Null
    THEN [isLoading |-> FALSE, isAuthenticated |-> FALSE, shopDomain |-> Null]
    ELSE IF t.accessToken # Null
    THEN [isLoading |-> FALSE, isAuthenticated |-> TRUE, shopDomain |-> t.shopDomain]
    ELSE a

\* notifyListeners: the provider state after the listeners ran on triple t.
notifyListeners(a, t, subscribed) == IF subscribed THEN Listener(a, t) ELSE a

Unauthenticated == [isLoading |-> FALSE, isAuthenticated |-> FALSE, shopDomain |-> Null]

\* The callback the AuthProvider registers: clearTokens, setState, push.
\* Returns the provider state; the store becomes EmptyTokens.
RedirectAuth(a, registered) == IF registered THEN Unauthenticated ELSE a

RedirectTokensKeep(t, registered) == t

\* The store after the terminal failure: the callback calls clearTokens().
RedirectTokens(t, registered) == IF registered THEN EmptyTokens ELSE t

\* ------------------------------------------------------- per-caller state

NoResult == [kind |-> "none", val |-> 0, code |-> "none"]

IdleProc ==
    [op |-> "idle", pc |-> "idle",
     phase |-> "none",      \* which call site awaits the refresh
     cause |-> "none",      \* class of the most recent response (ResponseClass)
     rok |-> "none",        \* how the most recent awaited refresh settled
     tok |-> Null,          \* bearer token of the most recent request
     hadAccess |-> FALSE,   \* the store held an access token when the fetch began
     nReq |-> 0,            \* requests sent to the operation's endpoint
     nRefresh |-> 0,        \* refreshAccessToken() invocations made by the call
     nRedirect |-> 0,       \* invocations of the redirect callback
     result |-> NoResult]   \* what the operation returned or threw

TokenResult(t) == [kind |-> "token", val |-> t, code |-> "none"]

ErrorResult(c) == [kind |-> "error", val |-> 0, code |-> c]

ResponseResult(r) == [kind |-> "response", val |-> r.status, code |-> r.type]

Returned == [kind |-> "returned", val |-> 0, code |-> "none"]

\* The guard called router.replace("/login") and returned.
Redirected == [kind |-> "redirected", val |-> 0, code |-> "none"]

\* The operation swallowed the rejection of the refresh in its catch.
Caught == [kind |-> "caught", val |-> 0, code |-> "none"]

\* The record of a finished operation: its locals are gone; what it returned
\* or threw and its counters stay.
Done(r, res) ==
    [IdleProc EXCEPT !.op = r.op, !.pc = "done", !.hadAccess = r.hadAccess,
                     !.cause = r.cause, !.rok = r.rok,
                     !.nReq = r.nReq, !.nRefresh = r.nRefresh,
                     !.nRedirect = r.nRedirect, !.result = res]

\* Callers are interchangeable: they are numbered in order of arrival.
Idle(p) ==
    /\ proc[p].op = "idle"
    /\ \A q \in Callers : q < p => proc[q].op # "idle"

\* A caller that gets the service from the mounted provider tree (useAuth,
\* ProtectedRoute) or calls it once the provider's effects have run.
Arrives(p) == mounted /\ Idle(p)

\* ------------------------------------------------------- authenticatedFetch

\* What the target can answer: a status and the error type of the body
\* ("unparsable": the body is not JSON; "none": no error type in the body).
Responses ==
    {[status |-> 200, type |-> "none"],
     [status |-> 400, type |-> "VALIDATION_ERROR"],
     [status |-> 500, type |-> "INTERNAL_ERROR"],
     [status |-> 401, type |-> "TOKEN_EXPIRED"],
     [status |-> 401, type |-> "NO_TOKEN"],
     [status |-> 401, type |-> "INVALID_TOKEN"],
     [status |-> 401, type |-> "FORBIDDEN"],
     [status |-> 401, type |-> "none"],
     [status |-> 401, type |-> "unparsable"]}

\* fetch() itself rejects (no response at all).
NetworkError == [status |-> 0, type |-> "network"]

NoAccessTokenNever(tok) == FALSE

\* `!accessToken` after getValidAccessTokenForRequest().
NoAccessToken(tok) == tok = Null

IsUnauthorizedAnyError(r) == r.status >= 400

\* `response.status === 401`.
IsUnauthorized(r) == r.status = 401

\* `response.clone().json().catch(...)`, then `errorData.error?.type`.
ErrorTypeOf(r) == IF r.type = "unparsable" THEN "UNKNOWN" ELSE r.type

IsTokenProblemWide(type) ==
    type \in {"TOKEN_EXPIRED", "NO_TOKEN", "INVALID_TOKEN", "FORBIDDEN"}

\* The three error types that make authenticatedFetch refresh and retry.
IsTokenProblem(type) == type \in {"TOKEN_EXPIRED", "NO_TOKEN", "INVALID_TOKEN"}

\* `errorData.error?.type ?? "AUTH_ERROR"`.
AuthErrorCode(type) == IF type = "none" THEN "AUTH_ERROR" ELSE type

RetryDecisionAlways(ok) == "retry"

\* After the refresh in reaction to a 401: retry, or give up.
RetryDecision(ok) == IF ok THEN "retry" ELSE "session_expired"

RetryBearerOld(newAccessToken, oldAccessToken) == oldAccessToken

\* The bearer token of the retried request.
RetryBearer(newAccessToken, oldAccessToken) == newAccessToken

\* The locals of a call after a terminal authentication failure: the redirect
\* callback ran if one is registered, then the ApiError was thrown.
Failed(r, code) ==
    Done([r EXCEPT !.nRedirect = r.nRedirect + (IF onAuthRedirect THEN 1 ELSE 0)],
         ErrorResult(code))

\* The locals of a call after fetch(input, {headers: Bearer tok}) was sent.
Sent(r, tok, nextPc) == [r EXCEPT !.pc = nextPc, !.tok = tok, !.nReq = r.nReq + 1]

\* --------------------------------------------- tokenService.refreshAccessToken

\* What a promise of refreshAccessToken() settles with: the new access
\* token, or the error it rejects with.
Resolved(accessToken) == [ok |-> TRUE, val |-> accessToken, err |-> "none"]

Rejection(err) == [ok |-> FALSE, val |-> Null, err |-> err]

\* The code of caller r that follows its `await refreshAccessToken()`, which
\* settled with s.  It runs in the microtasks of the task that settled the
\* refresh, so it is part of the same step.
Resume(r, s) ==
    LET r1 == [r EXCEPT !.rok = IF s.ok THEN "ok" ELSE "err"] IN
    CASE r.op \in {"gvat", "refresh"} ->
            Done(r1, IF s.ok THEN TokenResult(s.val) ELSE ErrorResult(s.err))
      [] r.op = "fetch" /\ r.phase = "pre" ->
            \* getValidAccessTokenForRequest() turns a rejection into null.
            IF NoAccessToken(s.val)
            THEN Failed(r1, "NOT_AUTHENTICATED")
            ELSE Sent(r1, s.val, "f_req1")
      [] r.op = "fetch" /\ r.phase = "retry" ->
            IF RetryDecision(s.ok) = "retry"
            THEN Sent(r1, RetryBearer(s.val, r.tok), "f_req2")
            ELSE Failed(r1, "SESSION_EXPIRED")
      [] OTHER -> Done(r1, IF s.ok THEN Returned ELSE Caught)

\* The continuation of r invoked the redirect callback.
Redirects(r, s) ==
    r.op = "fetch" /\ onAuthRedirect /\ Resume(r, s).pc = "done"

\* The store after the continuations of the callers in R ran on store t:
\* the redirect callback, the provider's catch and checkAndRefreshTokens'
\* catch call clearTokens().
TokensAfterResume(R, s, t) ==
    IF \E q \in R : \/ Redirects(proc[q], s)
                    \/ (proc[q].op \in {"proactive", "check1"} /\ ~s.ok)
    THEN EmptyTokens ELSE t

\* The provider state after the same continuations ran on provider state a.
AuthAfterResume(R, s, a) ==
    IF \E q \in R : \/ Redirects(proc[q], s)
                    \/ (proc[q].op = "proactive" /\ ~s.ok)
    THEN Unauthenticated
    ELSE IF \E q \in R : proc[q].op = "check1" /\ ~s.ok
    THEN notifyListeners(a, EmptyTokens, listening)
    ELSE a

RefreshEntryNoJoin(flag, t, v) ==
    IF v = "cookies" /\ t.refreshToken = Null THEN "throw" ELSE "fetch"

\* Entry of refreshAccessToken(): join the queue, throw, or send the request.
\* The check of the refresh token exists in the cookie-reading source only.
RefreshEntry(flag, t, v) ==
    IF flag THEN "queue"
    ELSE IF v = "cookies" /\ t.refreshToken = Null THEN "throw"
    ELSE "fetch"

\* A call of refreshAccessToken() by p, whose other locals have already been
\* updated to the record r, on the store t and the provider state a.  When
\* the call throws at once, the caller's continuation runs in the same step.
CallRefresh(p, r, t, a) ==
    LET e == RefreshEntry(isRefreshing, t, variant)
        r1 == [r EXCEPT !.nRefresh = r.nRefresh + 1]
        s == Rejection("NO_REFRESH_TOKEN")
    IN
    /\ refreshQueue' = IF e = "queue" THEN Append(refreshQueue, p) ELSE refreshQueue
    /\ isRefreshing' = IF e = "fetch" THEN TRUE ELSE isRefreshing
    /\ proc' = [proc EXCEPT ![p] =
          CASE e = "queue" -> [r1 EXCEPT !.pc = "r_queued"]
            [] e = "fetch" -> [r1 EXCEPT !.pc = "r_net"]
            [] OTHER -> Resume(r1, s)]
    /\ tokens' = IF e = "throw" /\ (Redirects(r1, s)
                                    \/ r1.op \in {"proactive", "check1"})
                 THEN EmptyTokens ELSE t
    /\ auth' = IF e = "throw" /\ (Redirects(r1, s) \/ r1.op = "proactive")
               THEN Unauthenticated
               ELSE IF e = "throw" /\ r1.op = "check1"
               THEN notifyListeners(a, EmptyTokens, listening)
               ELSE a

\* The ways the refresh request can end.
RefreshOutcomes ==
    {"ok", "not_ok", "success_false", "no_data", "network_error", "unparsable"}

\* fetch() or response.json() threw: control enters the catch block directly.
Thrown(o) == o \in {"network_error", "unparsable"}

\* The body parsed but `!response.ok || !data.success || !data.data` holds.
Rejected(o) == o \in {"not_ok", "success_false", "no_data"}

\* The payload of the n-th successful refresh response: a token pair that
\* no earlier response and no cookie carried.
RefreshData(n) ==
    [accessToken |-> OpaqueToken + n, refreshToken |-> OpaqueToken + n,
     shopDomain |-> Shop]

\* The refresh endpoint answers with outcome o: at most NTokens successes.
ServerAnswers(o) == o = "ok" => issued < NTokens

TokensAfterRefreshKeep(o, d, t) == IF o = "ok" THEN d ELSE t

\* The store after the request ended with outcome o and payload d.
TokensAfterRefresh(o, d, t) ==
    IF Rejected(o) THEN EmptyTokens       \* clearTokens() before the throw, again in catch
    ELSE IF Thrown(o) THEN EmptyTokens    \* clearTokens() in catch
    ELSE d                                \* setTokens(data.data...)

\* What the initiator's promise settles with: data.data.accessToken, the
\* Error("Token refresh failed") of the failure branch, or what fetch/json threw.
RefreshSettlement(o, d) ==
    IF o = "ok" THEN Resolved(d.accessToken)
    ELSE IF Rejected(o) THEN Rejection("REFRESH_FAILED")
    ELSE Rejection(o)

QueuedSettlementVoid(s) == IF s.ok THEN Resolved(Null) ELSE s

\* What the promise of every queued caller settles with, given what the
\* initiator's settles with: resolve(accessToken) or reject(error) for each.
QueuedSettlement(s) == s

DropQueue(q) == {}

SeqToSet(q) == {q[i] : i \in 1..Len(q)}

\* The refresh request of p ends: the store is written, the listeners run
\* (each caller in js calls refreshAccessToken() from a listener and, the
\* flag being set, is queued), every queued caller is settled, the queue is
\* emptied, the flag is reset; then the continuations of the queued callers
\* and of p run.
RefreshSettleJoined(p, o, js) ==
    /\ proc[p].pc = "r_net"
    /\ ServerAnswers(o)
    /\ \A i \in 1..Len(js) : Arrives(js[i])
    /\ issued' = IF o = "ok" THEN issued + 1 ELSE issued
    /\ LET d == RefreshData(issued + 1)
           s == RefreshSettlement(o, d)
           qs == QueuedSettlement(s)
           t2 == TokensAfterRefresh(o, d, tokens)
           a2 == notifyListeners(auth, t2, listening)
           joined == SeqToSet(js)
           waiters == SeqToSet(refreshQueue \o js)
           r == [q \in Procs |->
                   IF q \in joined
                   THEN [proc[q] EXCEPT !.op = "refresh", !.pc = "r_queued",
                                        !.nRefresh = proc[q].nRefresh + 1]
                   ELSE proc[q]]
       IN /\ tokens' = TokensAfterResume({p}, s, TokensAfterResume(waiters, qs, t2))
          /\ auth' = AuthAfterResume({p}, s, AuthAfterResume(waiters, qs, a2))
          /\ proc' = [q \in Procs |->
                IF q = p THEN Resume(r[q], s)
                ELSE IF q \in waiters THEN Resume(r[q], qs)
                ELSE r[q]]
          /\ refreshAttempted' =
                IF s.ok /\ \E q \in waiters \cup {p} : proc[q].op = "check1"
                THEN FALSE ELSE refreshAttempted
    /\ refreshQueue' = <<>>
    /\ isRefreshing' = FALSE
    /\ UNCHANGED <<side, variant, listening, cookies, mounted, onAuthRedirect,
                   proactiveRefreshStarted>>

\* The same with no listener that calls refreshAccessToken().
RefreshSettle(p, o) == RefreshSettleJoined(p, o, <<>>)

\* A caller invokes tokenService.refreshAccessToken() itself.
RefreshAccessToken(p) ==
    /\ Arrives(p)
    /\ CallRefresh(p, [proc[p] EXCEPT !.op = "refresh"], tokens, auth)
    /\ UNCHANGED <<side, variant, issued, listening, cookies, mounted, onAuthRedirect,
                   proactiveRefreshStarted, refreshAttempted>>

\* --------------------------------------------- tokenService.getValidAccessToken

GetValidAccessTokenRefreshFirst(p) ==
    /\ Arrives(p)
    /\ CallRefresh(p, [proc[p] EXCEPT !.op = "gvat"], tokens, auth)
    /\ UNCHANGED <<side, variant, issued, listening, cookies, mounted, onAuthRedirect,
                   proactiveRefreshStarted, refreshAttempted>>

GetValidAccessToken(p) ==
    /\ Arrives(p)
    /\ LET r == [proc[p] EXCEPT !.op = "gvat"] IN
       IF tokens.accessToken # Null
       THEN /\ proc' = [proc EXCEPT ![p] = Done(r, TokenResult(tokens.accessToken))]
            /\ UNCHANGED <<tokens, auth, isRefreshing, refreshQueue>>
       ELSE IF tokens.refreshToken # Null
       THEN CallRefresh(p, r, tokens, auth)
       ELSE /\ proc' = [proc EXCEPT ![p] = Done(r, ErrorResult("NO_CREDENTIALS"))]
            /\ UNCHANGED <<tokens, auth, isRefreshing, refreshQueue>>
    /\ UNCHANGED <<side, variant, issued, listening, cookies, mounted, onAuthRedirect,
                   proactiveRefreshStarted, refreshAttempted>>

\* ----------------------------------------------- authenticatedFetch: steps

\* The class of what came back for a request: no response at all, a response
\* that is not an authorization failure, a 401 that names a token problem, or
\* any other 401.
ResponseClass(r) ==
    IF r.status = 0 THEN "network"
    ELSE IF r.status # 401 THEN "nonauth"
    ELSE IF r.type \in {"TOKEN_EXPIRED", "NO_TOKEN", "INVALID_TOKEN"} THEN "token"
    ELSE "other"

\* authenticatedFetch once getValidAccessTokenForRequest() returned tok
\* without awaiting: the `!accessToken` check, then the first request.
FetchWithToken(p, r, tok) ==
    IF NoAccessToken(tok)
    THEN /\ proc' = [proc EXCEPT ![p] = Failed(r, "NOT_AUTHENTICATED")]
         /\ tokens' = RedirectTokens(tokens, onAuthRedirect)
         /\ auth' = RedirectAuth(auth, onAuthRedirect)
         /\ UNCHANGED <<isRefreshing, refreshQueue>>
    ELSE /\ proc' = [proc EXCEPT ![p] = Sent(r, tok, "f_req1")]
         /\ UNCHANGED <<tokens, auth, isRefreshing, refreshQueue>>

\* authenticatedFetch up to its first await of the network.  It is a module
\* function: an effect of a child component can call it before the effects
\* of AuthProvider have registered the redirect callback.
FetchStart(p) ==
    /\ Idle(p)
    /\ LET r == [proc[p] EXCEPT !.op = "fetch", !.hadAccess = tokens.accessToken # Null] IN
       IF tokens.accessToken # Null
       THEN FetchWithToken(p, r, tokens.accessToken)
       ELSE IF hasRefreshToken(tokens)
       THEN CallRefresh(p, [r EXCEPT !.phase = "pre"], tokens, auth)
       ELSE FetchWithToken(p, r, Null)
    /\ UNCHANGED <<side, variant, issued, listening, cookies, mounted, onAuthRedirect,
                   proactiveRefreshStarted, refreshAttempted>>

\* The first request ends with response r (or NetworkError).
FetchResponse1(p, r) ==
    /\ proc[p].op = "fetch" /\ proc[p].pc = "f_req1"
    /\ LET l == [proc[p] EXCEPT !.cause = ResponseClass(r)] IN
       IF r = NetworkError
       THEN /\ proc' = [proc EXCEPT ![p] = Done(l, ErrorResult("NETWORK_ERROR"))]
            /\ UNCHANGED <<tokens, auth, isRefreshing, refreshQueue>>
       ELSE IF ~IsUnauthorized(r)
       THEN /\ proc' = [proc EXCEPT ![p] = Done(l, ResponseResult(r))]
            /\ UNCHANGED <<tokens, auth, isRefreshing, refreshQueue>>
       ELSE IF IsTokenProblem(ErrorTypeOf(r))
       THEN CallRefresh(p, [l EXCEPT !.phase = "retry"], tokens, auth)
       ELSE /\ proc' = [proc EXCEPT ![p] = Failed(l, AuthErrorCode(ErrorTypeOf(r)))]
            /\ tokens' = RedirectTokens(tokens, onAuthRedirect)
            /\ auth' = RedirectAuth(auth, onAuthRedirect)
            /\ UNCHANGED <<isRefreshing, refreshQueue>>
    /\ UNCHANGED <<side, variant, issued, listening, cookies, mounted, onAuthRedirect,
                   proactiveRefreshStarted, refreshAttempted>>

FetchResponse2Redirects(p, r) ==
    /\ proc[p].op = "fetch" /\ proc[p].pc = "f_req2"
    /\ LET l == [proc[p] EXCEPT !.cause = ResponseClass(r)] IN
       IF r = NetworkError \/ IsUnauthorized(r)
       THEN /\ proc' = [proc EXCEPT ![p] = Failed(l, "SESSION_EXPIRED")]
            /\ tokens' = RedirectTokens(tokens, onAuthRedirect)
            /\ auth' = RedirectAuth(auth, onAuthRedirect)
       ELSE /\ proc' = [proc EXCEPT ![p] = Done(l, ResponseResult(r))]
            /\ UNCHANGED <<tokens, auth>>
    /\ UNCHANGED <<side, variant, issued, isRefreshing, refreshQueue, listening, cookies, mounted,
                   onAuthRedirect, proactiveRefreshStarted, refreshAttempted>>

\* The retried request ends.  It sits in the same try block as the refresh,
\* so a rejected fetch() lands in the catch that reports SESSION_EXPIRED.
FetchResponse2(p, r) ==
    /\ proc[p].op = "fetch" /\ proc[p].pc = "f_req2"
    /\ LET l == [proc[p] EXCEPT !.cause = ResponseClass(r)] IN
       IF r = NetworkError
       THEN /\ proc' = [proc EXCEPT ![p] = Failed(l, "SESSION_EXPIRED")]
            /\ tokens' = RedirectTokens(tokens, onAuthRedirect)
            /\ auth' = RedirectAuth(auth, onAuthRedirect)
       ELSE /\ proc' = [proc EXCEPT ![p] = Done(l, ResponseResult(r))]
            /\ UNCHANGED <<tokens, auth>>
    /\ UNCHANGED <<side, variant, issued, isRefreshing, refreshQueue, listening, cookies, mounted,
                   onAuthRedirect, proactiveRefreshStarted, refreshAttempted>>

\* ----------------------------------------------------- tokenService: cookies

NoCookies == [access |-> Null, refresh |-> Null]

\* decodeJwtPayload(token)?.shopDomain ?? null: null when the payload cannot
\* be decoded, the shop domain in the payload otherwise.
decodeJwtPayload(token) == IF token = OpaqueToken THEN Null ELSE Shop

\* initFromCookies(): the store it leaves and the flag it returns.
initFromCookies(c, t) ==
    IF c.access # Null /\ c.refresh = Null
    THEN [tokens |-> EmptyTokens, needsProactiveRefresh |-> FALSE]
    ELSE IF c.refresh # Null
    THEN [tokens |-> [accessToken |-> c.access, refreshToken |-> c.refresh,
                      shopDomain |-> IF c.access # Null
                                     THEN decodeJwtPayload(c.access) ELSE Null],
          needsProactiveRefresh |-> c.access = Null]
    ELSE [tokens |-> t, needsProactiveRefresh |-> FALSE]

\* ------------------------------------------------------------- AuthProvider

\* The two mount effects: register the redirect callback; initFromCookies,
\* subscribe the listener, check the token state, start the proactive refresh.
ProviderMount ==
    /\ ~mounted
    /\ mounted' = TRUE
    /\ onAuthRedirect' = TRUE
    /\ listening' = TRUE
    /\ LET i == initFromCookies(cookies, tokens)
           t1 == i.tokens
       IN IF ~hasValidTokenState(t1)
          THEN /\ tokens' = EmptyTokens
               /\ auth' = Unauthenticated
               /\ UNCHANGED <<proactiveRefreshStarted, isRefreshing, refreshQueue, proc>>
          ELSE IF i.needsProactiveRefresh /\ ~proactiveRefreshStarted
          THEN /\ proactiveRefreshStarted' = TRUE
               /\ CallRefresh(Provider, [proc[Provider] EXCEPT !.op = "proactive"],
                              t1, [auth EXCEPT !.isLoading = TRUE])
          ELSE /\ tokens' = t1
               /\ auth' = IF hasTokens(t1)
                          THEN [isLoading |-> FALSE, isAuthenticated |-> TRUE,
                                shopDomain |-> t1.shopDomain]
                          ELSE IF hasRefreshToken(t1)
                          THEN [auth EXCEPT !.isLoading = TRUE]
                          ELSE [auth EXCEPT !.isLoading = FALSE]
               /\ UNCHANGED <<proactiveRefreshStarted, isRefreshing, refreshQueue, proc>>
    /\ UNCHANGED <<side, variant, issued, cookies, refreshAttempted>>

\* syncFromCookies() on the cookies c and the store t: the store it leaves
\* (each field is patched on its own, no listener is called) and what it
\* returns.
syncFromCookies(c, t) ==
    LET access == IF c.access = Null /\ t.accessToken # Null THEN Null
                  ELSE IF c.access # Null /\ t.accessToken = Null THEN c.access
                  ELSE t.accessToken
        refresh == IF c.refresh = Null /\ t.refreshToken # Null THEN Null
                   ELSE IF c.refresh # Null /\ t.refreshToken = Null THEN c.refresh
                   ELSE t.refreshToken
    IN [tokens |-> [t EXCEPT !.accessToken = access, !.refreshToken = refresh],
        hasAccessToken |-> c.access # Null,
        hasRefreshToken |-> c.refresh # Null,
        needsRefresh |-> c.access = Null /\ c.refresh # Null]

\* recheckAuth() of the AuthProvider.
RecheckAuth ==
    /\ mounted
    /\ LET s == syncFromCookies(cookies, tokens) IN
       /\ tokens' = s.tokens
       /\ auth' = IF s.hasAccessToken
                  THEN IF ~auth.isAuthenticated
                       THEN [isLoading |-> FALSE, isAuthenticated |-> TRUE,
                             shopDomain |-> s.tokens.shopDomain]
                       ELSE auth
                  ELSE IF ~s.needsRefresh /\ auth.isAuthenticated
                  THEN Unauthenticated
                  ELSE auth
    /\ UNCHANGED <<side, variant, issued, isRefreshing, refreshQueue, listening, cookies,
                   mounted, onAuthRedirect, proactiveRefreshStarted, refreshAttempted,
                   proc>>

\* The server sets the cookies, or the browser drops an expired one.
CookiesChange(c) ==
    /\ cookies # c
    /\ cookies' = c
    /\ UNCHANGED <<side, variant, issued, tokens, isRefreshing, refreshQueue, listening,
                   mounted, onAuthRedirect, auth, proactiveRefreshStarted,
                   refreshAttempted, proc>>

\* How the logout request can end.
LogoutOutcomes == {"ok", "failure_status", "network_error"}

LogoutServiceThrows(o) == o = "network_error"

\* logoutService() catches and logs every failure: it never rejects.
LogoutServiceRejects(o) == FALSE

\* The tail of AuthProvider.logout(): clearTokens(), setState, push.
LogoutFinish(p, r) ==
    /\ tokens' = EmptyTokens
    /\ auth' = Unauthenticated
    /\ proc' = [proc EXCEPT ![p] = Done(r, Returned)]

\* AuthProvider.logout() up to the await of logoutService().
LogoutStart(p) ==
    /\ Arrives(p)
    /\ LET r == [proc[p] EXCEPT !.op = "logout"]
           shopDomain == IF auth.shopDomain # Null THEN auth.shopDomain
                         ELSE tokens.shopDomain
       IN IF shopDomain # Null
          THEN /\ proc' = [proc EXCEPT ![p] = [r EXCEPT !.pc = "l_net", !.nReq = 1]]
               /\ UNCHANGED <<tokens, auth>>
          ELSE LogoutFinish(p, r)
    /\ UNCHANGED <<side, variant, issued, isRefreshing, refreshQueue, listening, cookies, mounted,
                   onAuthRedirect, proactiveRefreshStarted, refreshAttempted>>

\* The logout request ends.
LogoutSettle(p, o) ==
    /\ proc[p].op = "logout" /\ proc[p].pc = "l_net"
    /\ IF LogoutServiceRejects(o)
       THEN /\ proc' = [proc EXCEPT ![p] = Done(proc[p], ErrorResult("LOGOUT_FAILED"))]
            /\ UNCHANGED <<tokens, auth>>
       ELSE LogoutFinish(p, proc[p])
    /\ UNCHANGED <<side, variant, issued, isRefreshing, refreshQueue, listening, cookies, mounted,
                   onAuthRedirect, proactiveRefreshStarted, refreshAttempted>>

\* --------------------------------- tokenService.syncFromServer, ProtectedRoute

\* How GET /auth/status can end.
StatusOutcomes == {"authenticated", "unauthenticated", "not_ok", "network_error"}

SyncResult(a, r) == [hasAccessToken |-> a, hasRefreshToken |-> r]

\* checkAndRefreshTokens(), started by the navigation effect (which first
\* resets refreshAttempted); it returns at once while auth is loading.
CheckTokensStart(p) ==
    /\ ~auth.isLoading
    /\ Arrives(p)
    /\ refreshAttempted' = FALSE
    /\ proc' = [proc EXCEPT ![p] = [@ EXCEPT !.op = "check1", !.pc = "s_status"]]
    /\ UNCHANGED <<side, variant, issued, tokens, isRefreshing, refreshQueue, listening, cookies,
                   mounted, onAuthRedirect, auth, proactiveRefreshStarted>>

\* checkAuth(), the second effect: runs when auth says "not authenticated".
CheckAuthStart(p) ==
    /\ ~auth.isLoading /\ ~auth.isAuthenticated
    /\ Arrives(p)
    /\ proc' = [proc EXCEPT ![p] = [@ EXCEPT !.op = "check2", !.pc = "s_status"]]
    /\ UNCHANGED <<side, variant, issued, tokens, isRefreshing, refreshQueue, listening, cookies,
                   mounted, onAuthRedirect, auth, proactiveRefreshStarted,
                   refreshAttempted>>

\* The code of the two checks after `await tokenService.syncFromServer()`
\* returned s, on the store t and provider state a that syncFromServer left.
AfterSync(p, s, t, a) ==
    IF proc[p].op = "check1"
    THEN IF s.hasAccessToken
         THEN /\ refreshAttempted' = FALSE
              /\ tokens' = t /\ auth' = a
              /\ proc' = [proc EXCEPT ![p] = Done(proc[p], Returned)]
              /\ UNCHANGED <<isRefreshing, refreshQueue>>
         ELSE IF s.hasRefreshToken /\ ~refreshAttempted
         THEN /\ refreshAttempted' = TRUE
              /\ CallRefresh(p, proc[p], t, a)
         ELSE IF ~s.hasRefreshToken /\ ~refreshAttempted
         THEN /\ refreshAttempted' = TRUE
              /\ tokens' = EmptyTokens
              /\ auth' = notifyListeners(a, EmptyTokens, listening)
              /\ proc' = [proc EXCEPT ![p] = Done(proc[p], Redirected)]
              /\ UNCHANGED <<isRefreshing, refreshQueue>>
         ELSE /\ tokens' = t /\ auth' = a
              /\ proc' = [proc EXCEPT ![p] = Done(proc[p], Returned)]
              /\ UNCHANGED <<refreshAttempted, isRefreshing, refreshQueue>>
    ELSE IF ~s.hasAccessToken /\ s.hasRefreshToken
         THEN /\ CallRefresh(p, proc[p], t, a)
              /\ UNCHANGED refreshAttempted
         ELSE /\ tokens' = t /\ auth' = a
              /\ proc' = [proc EXCEPT ![p] =
                    Done(proc[p], IF s.hasAccessToken THEN Returned ELSE Redirected)]
              /\ UNCHANGED <<refreshAttempted, isRefreshing, refreshQueue>>

\* GET /auth/status ends.  "unauthenticated" makes syncFromServer send its own
\* POST /auth/refresh, without looking at the isRefreshing flag.
SyncStatus(p, o) ==
    /\ proc[p].pc = "s_status"
    /\ IF o = "unauthenticated"
       THEN /\ proc' = [proc EXCEPT ![p] = [@ EXCEPT !.pc = "s_refresh"]]
            /\ UNCHANGED <<tokens, auth, refreshAttempted, isRefreshing, refreshQueue>>
       ELSE AfterSync(p, SyncResult(o = "authenticated", o = "authenticated"),
                      tokens, auth)
    /\ UNCHANGED <<side, variant, issued, listening, cookies, mounted, onAuthRedirect,
                   proactiveRefreshStarted>>

\* The POST /auth/refresh of syncFromServer ends: only `ok` with success
\* = true writes the store; every failure is swallowed.
SyncRefresh(p, o) ==
    /\ proc[p].pc = "s_refresh"
    /\ ServerAnswers(o)
    /\ issued' = IF o = "ok" THEN issued + 1 ELSE issued
    /\ LET ok == o = "ok"
           t2 == IF ok THEN RefreshData(issued + 1) ELSE tokens
           a2 == IF ok THEN notifyListeners(auth, t2, listening) ELSE auth
       IN AfterSync(p, SyncResult(ok, ok), t2, a2)
    /\ UNCHANGED <<side, variant, listening, cookies, mounted, onAuthRedirect,
                   proactiveRefreshStarted>>


\* The cookies the server can have left behind: none, one of the pair
\* expired, or both of one generation.
\* ------------------------------------------------------------------- proxy

MaxPathLen == 2    \* segments of a request path

\* Path segments: the route names of the application, a sibling name that
\* only shares a prefix with a route, another name, and the empty segment.
Segments == {"", "dashboard", "wizard", "login", "auth", "callback", "dashboardx", "x"}

\* A pathname is "/" followed by its segments joined by "/": <<"">> is "/",
\* <<"dashboard", "x">> is "/dashboard/x", <<"dashboard", "">> is "/dashboard/".
Pathnames == UNION {[1..n -> Segments] : n \in 1..MaxPathLen}

PROTECTED_ROUTES == {<<"dashboard">>, <<"wizard">>}

AuthRoutesAndDashboard == {<<"login">>, <<"dashboard">>}

AUTH_ROUTES == {<<"login">>}

PUBLIC_ROUTES == {<<"">>, <<"auth", "callback">>}

\* request.cookies.get(name): no cookie, a cookie with an empty value, a token.
NoCookie == [present |-> FALSE, value |-> ""]

CookieValues == {NoCookie, [present |-> TRUE, value |-> ""], [present |-> TRUE, value |-> "jwt"]}

\* Boolean(request.cookies.get(name)?.value).
CookieTruthy(c) == c.present /\ c.value # ""

Requests == [pathname : Pathnames, access : CookieValues, refresh : CookieValues]

NoRequest == [pathname |-> <<>>, access |-> NoCookie, refresh |-> NoCookie]

NoResponse == [kind |-> "none"]

\* NextResponse.next().
NextResponse == [kind |-> "next"]

\* NextResponse.redirect(new URL(to, request.url)), with the searchParams.
RedirectResponse(to, params) == [kind |-> "redirect", to |-> to, params |-> params]

NoParams == [redirect |-> <<>>]

\* pathname.startsWith(`${route}/`)
StartsWithRoute(pathname, route) ==
    /\ Len(pathname) > Len(route)
    /\ SubSeq(pathname, 1, Len(route)) = route

matchesRouteExact(pathname, routes) == \E route \in routes : pathname = route

matchesRoute(pathname, routes) ==
    \E route \in routes : pathname = route \/ StartsWithRoute(pathname, route)

proxyAccessOnly(req) ==
    LET hasAccessToken == CookieTruthy(req.access)
    IN IF matchesRoute(req.pathname, PUBLIC_ROUTES) THEN NextResponse
       ELSE IF matchesRoute(req.pathname, AUTH_ROUTES)
       THEN IF hasAccessToken
            THEN RedirectResponse(<<"dashboard">>, NoParams)
            ELSE NextResponse
       ELSE IF matchesRoute(req.pathname, PROTECTED_ROUTES)
       THEN IF hasAccessToken THEN NextResponse
            ELSE RedirectResponse(<<"login">>, [redirect |-> req.pathname])
       ELSE NextResponse

\* proxy(request).
proxy(req) ==
    LET hasAccessToken == CookieTruthy(req.access)
        hasRefreshTokenOnly == ~CookieTruthy(req.access) /\ CookieTruthy(req.refresh)
    IN IF matchesRoute(req.pathname, PUBLIC_ROUTES) THEN NextResponse
       ELSE IF matchesRoute(req.pathname, AUTH_ROUTES)
       THEN IF hasAccessToken
            THEN RedirectResponse(<<"dashboard">>, NoParams)
            ELSE NextResponse
       ELSE IF matchesRoute(req.pathname, PROTECTED_ROUTES)
       THEN IF hasAccessToken THEN NextResponse
            ELSE IF hasRefreshTokenOnly THEN NextResponse
            ELSE RedirectResponse(<<"login">>, [redirect |-> req.pathname])
       ELSE NextResponse

ProxyIdle == request = NoRequest /\ response = NoResponse

\* The proxy handles the request.
Proxy ==
    /\ response = NoResponse
    /\ response' = proxy(request)
    /\ UNCHANGED <<authVars, request, storeVars, previewVars, wizard>>

\* ------------------------------------------------- tokenService: the store

MaxCalls == 2    \* setTokens/clearTokens calls in one run

ListenerIds == {"a", "b"}

\* What a caller can pass as a token, and as the optional shop domain.
TokenArgs == {Null, SessionToken}

ShopArgs == {"undefined", "null", "shop"}

\* shopDomain ?? null
orNull(s) == IF s = "shop" THEN Shop ELSE Null

NoCall == [n |-> 0, op |-> "none", a |-> Null, r |-> Null, s |-> "undefined",
           ret |-> "void"]

StoreIdle ==
    /\ tokenChangeListeners = {}
    /\ heard = [l \in ListenerIds |-> <<>>]
    /\ call = NoCall

notifyEveryListener(h, ls, t) == [l \in ListenerIds |-> Append(h[l], t)]

\* notifyListeners() on the listener set ls and the triple t: what each
\* listener has been called with afterwards.
notifyTokenChangeListeners(h, ls, t) ==
    [l \in ListenerIds |-> IF l \in ls THEN Append(h[l], t) ELSE h[l]]

\* setTokens(accessToken, refreshToken, shopDomain?)
SetTokens(a, r, s) ==
    /\ call.n < MaxCalls
    /\ tokens' = [accessToken |-> a, refreshToken |-> r, shopDomain |-> orNull(s)]
    /\ heard' = notifyTokenChangeListeners(heard, tokenChangeListeners, tokens')
    /\ call' = [n |-> call.n + 1, op |-> "setTokens", a |-> a, r |-> r, s |-> s,
                ret |-> "void"]
    /\ UNCHANGED <<lifecycleVars, proxyVars, previewVars, wizard, tokenChangeListeners>>

\* clearTokens()
ClearTokens ==
    /\ call.n < MaxCalls
    /\ tokens' = EmptyTokens
    /\ heard' = notifyTokenChangeListeners(heard, tokenChangeListeners, tokens')
    /\ call' = [NoCall EXCEPT !.n = call.n + 1, !.op = "clearTokens"]
    /\ UNCHANGED <<lifecycleVars, proxyVars, previewVars, wizard, tokenChangeListeners>>

\* addTokenChangeListener(listener): Set.add, nothing is delivered.
AddTokenChangeListener(l) ==
    /\ tokenChangeListeners' = tokenChangeListeners \cup {l}
    /\ UNCHANGED <<authVars, proxyVars, previewVars, wizard, heard, call>>

\* The cleanup function addTokenChangeListener returned: Set.delete.
Unsubscribe(l) ==
    /\ tokenChangeListeners' = tokenChangeListeners \ {l}
    /\ UNCHANGED <<authVars, proxyVars, previewVars, wizard, heard, call>>

\* A call of hasValidTokenState() and what it returned.
HasValidTokenState ==
    /\ call' = [NoCall EXCEPT !.n = call.n, !.op = "hasValidTokenState",
                              !.ret = IF hasValidTokenState(tokens)
                                      THEN "true" ELSE "false"]
    /\ UNCHANGED <<authVars, proxyVars, previewVars, wizard, tokenChangeListeners, heard>>

\* A call of syncFromCookies() while the page has the cookies c.
SyncFromCookies(c) ==
    /\ call.n < MaxCalls
    /\ tokens' = syncFromCookies(c, tokens).tokens
    /\ call' = [NoCall EXCEPT !.n = call.n + 1, !.op = "syncFromCookies"]
    /\ UNCHANGED <<lifecycleVars, proxyVars, previewVars, wizard, tokenChangeListeners,
                   heard>>

\* ------------------------------------------------------------ ThemePreview

MaxLen == 2    \* lexemes in the file that is not one of the samples

\* A file's text is a sequence of lexemes separated by white space: the four
\* Liquid delimiters, words, and pieces of markup.  No lexeme holds a "$".
PercentLexemes == {"{%", "%}"}    \* the lexemes [^%] cannot cross

BraceLexemes == {"}}", "%}"}      \* the lexemes [^}] cannot cross

\* Quoted names, and the placeholder name built from each:
\* name.toUpperCase().replace(/-/g, "_").
QuotedNames == {"'header'", "'hero'", "'featured-products'", "'footer'", "'icon'"}

SectionPlaceholder(q) ==
    CASE q = "'header'" -> "SECTION_HEADER"
      [] q = "'hero'" -> "SECTION_HERO"
      [] q = "'featured-products'" -> "SECTION_FEATURED_PRODUCTS"
      [] q = "'footer'" -> "SECTION_FOOTER"
      [] OTHER -> "SECTION_ICON"

Placeholder(name) == <<"{{", name, "}}">>

\* brandName ?? "Your Store"
BrandOrDevice(b) == IF b = "undefined" THEN device ELSE b

BrandOrDefault(b) == IF b = "undefined" THEN "Your Store" ELSE b

\* The chain of replace() calls of processLiquid, in source order.
Substitutions ==
    << [kind |-> "output", words |-> {"shop.name"}, with |-> <<"BRAND">>],
       [kind |-> "output", words |-> {"page_title"}, with |-> <<"BRAND">>],
       [kind |-> "output", words |-> {"content_for_header"}, with |-> <<>>],
       [kind |-> "output", words |-> {"content_for_layout"},
        with |-> Placeholder("CONTENT_PLACEHOLDER")],
       [kind |-> "output", words |-> {"section.settings.title"},
        with |-> <<"Sample Text">>],
       [kind |-> "output", words |-> {"block.settings.title"},
        with |-> <<"Sample Block Text">>],
       [kind |-> "tagargs", words |-> {"if"}, with |-> <<>>],
       [kind |-> "tag", words |-> {"endif"}, with |-> <<>>],
       [kind |-> "tag", words |-> {"else"}, with |-> <<>>],
       [kind |-> "tagargs", words |-> {"elsif"}, with |-> <<>>],
       [kind |-> "tagargs", words |-> {"unless"}, with |-> <<>>],
       [kind |-> "tag", words |-> {"endunless"}, with |-> <<>>],
       [kind |-> "tagargs", words |-> {"for"}, with |-> <<>>],
       [kind |-> "tag", words |-> {"endfor"}, with |-> <<>>],
       [kind |-> "tagargs", words |-> {"capture"}, with |-> <<>>],
       [kind |-> "tag", words |-> {"endcapture"}, with |-> <<>>],
       [kind |-> "tagargs", words |-> {"assign"}, with |-> <<>>],
       [kind |-> "block", words |-> {"comment"}, with |-> <<"endcomment">>],
       [kind |-> "block", words |-> {"schema"}, with |-> <<"endschema">>],
       [kind |-> "block", words |-> {"stylesheet"}, with |-> <<"endstylesheet">>],
       [kind |-> "block", words |-> {"javascript"}, with |-> <<"endjavascript">>],
       [kind |-> "section", words |-> {"section"}, with |-> <<>>],
       [kind |-> "include", words |-> {"include", "render"}, with |-> <<>>],
       [kind |-> "anytag", words |-> {}, with |-> <<>>],
       [kind |-> "anyoutput", words |-> {}, with |-> <<>>] >>

\* s holds the lexemes w from position i on.
StartsAt(s, i, w) ==
    /\ i + Len(w) - 1 <= Len(s)
    /\ SubSeq(s, i, i + Len(w) - 1) = w

\* The first position from i on whose lexeme is in stop; 0 when there is none.
FirstOf(s, i, stop) ==
    LET J == {j \in i..Len(s) : s[j] \in stop}
    IN IF J = {} THEN 0 ELSE CHOOSE j \in J : \A k \in J : j <= k

\* The first position from i on where the lexemes w begin; 0 when none.
FirstAt(s, i, w) ==
    LET J == {j \in i..Len(s) : StartsAt(s, j, w)}
    IN IF J = {} THEN 0 ELSE CHOOSE j \in J : \A k \in J : j <= k

\* The length of the match of pattern pat that begins at position i of s;
\* 0 when the regular expression does not match there.
Match(pat, s, i) ==
    LET open == IF pat.kind \in {"output", "anyoutput"} THEN "{{" ELSE "{%"
        close == IF pat.kind \in {"output", "anyoutput"} THEN "}}" ELSE "%}"
        stop == IF pat.kind = "anyoutput" THEN BraceLexemes ELSE PercentLexemes
    IN
    IF s[i] # open THEN 0
    ELSE CASE pat.kind \in {"output", "tag"} ->
                 IF /\ i + 2 <= Len(s) /\ s[i + 1] \in pat.words
                    /\ s[i + 2] = close
                 THEN 3 ELSE 0
           [] pat.kind = "tagargs" ->
                 LET j == FirstOf(s, i + 2, stop) IN
                 IF /\ i + 1 <= Len(s) /\ s[i + 1] \in pat.words
                    /\ j >= i + 3 /\ s[j] = close
                 THEN j - i + 1 ELSE 0
           [] pat.kind = "block" ->
                 LET j == FirstAt(s, i + 3, <<"{%", pat.with[1], "%}">>) IN
                 IF /\ i + 2 <= Len(s) /\ s[i + 1] \in pat.words
                    /\ s[i + 2] = close /\ j > 0
                 THEN j - i + 3 ELSE 0
           [] pat.kind = "section" ->
                 IF /\ i + 3 <= Len(s) /\ s[i + 1] \in pat.words
                    /\ s[i + 2] \in QuotedNames /\ s[i + 3] = close
                 THEN 4 ELSE 0
           [] pat.kind = "include" ->
                 LET j == FirstOf(s, i + 3, stop) IN
                 IF /\ i + 2 <= Len(s) /\ s[i + 1] \in pat.words
                    /\ s[i + 2] \in QuotedNames /\ j > 0 /\ s[j] = close
                 THEN j - i + 1 ELSE 0
           [] OTHER ->
                 LET j == FirstOf(s, i + 1, stop) IN
                 IF j >= i + 2 /\ s[j] = close THEN j - i + 1 ELSE 0

\* What replace() puts in the place of the match at position i.
Replacement(pat, s, i, brand) ==
    IF pat.kind = "section" THEN Placeholder(SectionPlaceholder(s[i + 2]))
    ELSE IF pat.kind = "block" THEN <<>>
    ELSE IF pat.with = <<"BRAND">> THEN <<BrandOrDefault(brand)>>
    ELSE pat.with

RECURSIVE ReplaceAll(_, _, _, _)
\* s.replace(/pat/g, ...) from position i on.
ReplaceAll(pat, s, i, brand) ==
    IF i > Len(s) THEN <<>>
    ELSE LET n == Match(pat, s, i) IN
         IF n > 0
         THEN Replacement(pat, s, i, brand) \o ReplaceAll(pat, s, i + n, brand)
         ELSE <<s[i]>> \o ReplaceAll(pat, s, i + 1, brand)

RECURSIVE ApplyFrom(_, _, _)
ApplyFrom(k, s, brand) ==
    IF k > Len(Substitutions) THEN s
    ELSE ApplyFrom(k + 1, ReplaceAll(Substitutions[k], s, 1, brand), brand)

processLiquid(content, brand) == ApplyFrom(1, content, brand)

RECURSIVE Blocks(_, _, _, _)
\* The texts between each opening w and the first closing c after it.
Blocks(s, i, w, c) ==
    LET a == FirstAt(s, i, w)
        b == IF a = 0 THEN 0 ELSE FirstAt(s, a + Len(w), c)
    IN IF b = 0 THEN <<>>
       ELSE SubSeq(s, a + Len(w), b - 1) \o Blocks(s, b + Len(c), w, c)

extractCss(content) ==
    Blocks(content, 1, <<"{%", "stylesheet", "%}">>, <<"{%", "endstylesheet", "%}">>)
        \o Blocks(content, 1, <<"<style>">>, <<"</style>">>)

\* s.replace(w, r) with a string pattern: the first occurrence only.
ReplaceFirst(s, w, r) ==
    LET a == FirstAt(s, 1, w)
    IN IF a = 0 THEN s
       ELSE SubSeq(s, 1, a - 1) \o r \o SubSeq(s, a + Len(w), Len(s))

\* liquidFiles[path] ?? ""
FileContent(files, path) ==
    IF \E i \in 1..Len(files) : files[i][1] = path
    THEN files[CHOOSE i \in 1..Len(files) : files[i][1] = path][2]
    ELSE <<>>

RECURSIVE AllCssFrom(_, _)
\* Object.values(liquidFiles).map(extractCss).filter(Boolean).join("\n")
AllCssFrom(files, i) ==
    IF i > Len(files) THEN <<>>
    ELSE extractCss(files[i][2]) \o AllCssFrom(files, i + 1)

NoColorScheme == [given |-> FALSE, primaryColor |-> "", secondaryColor |-> "",
                  accentColor |-> ""]

colorCssPrimaryOnly(colors) ==
    IF colors.given
    THEN <<":root", "--color-primary:", colors.primaryColor, ";",
           "--color-secondary:", colors.primaryColor, ";",
           "--color-accent:", colors.primaryColor, ";">>
    ELSE <<>>

\* The :root rule with the three custom properties; empty without a scheme.
colorCss(colors) ==
    IF colors.given
    THEN <<":root", "--color-primary:", colors.primaryColor, ";",
           "--color-secondary:", colors.secondaryColor, ";",
           "--color-accent:", colors.accentColor, ";">>
    ELSE <<>>

ReplaceSections(s, header, footer, hero, featured) ==
    ReplaceFirst(
      ReplaceFirst(
        ReplaceFirst(
          ReplaceFirst(s, Placeholder("SECTION_HEADER"), header),
          Placeholder("SECTION_FOOTER"), footer),
        Placeholder("SECTION_HERO"), hero),
      Placeholder("SECTION_FEATURED_PRODUCTS"), featured)

generatePreviewHtml(files, colors, brand) ==
    LET layoutContent == FileContent(files, "layout/theme.liquid")
        indexContent == FileContent(files, "templates/index.liquid")
        processedHeader == processLiquid(FileContent(files, "sections/header.liquid"), brand)
        processedFooter == processLiquid(FileContent(files, "sections/footer.liquid"), brand)
        processedHero == processLiquid(FileContent(files, "sections/hero.liquid"), brand)
        processedFeaturedProducts ==
            processLiquid(FileContent(files, "sections/featured-products.liquid"), brand)
        processedIndex == processLiquid(indexContent, brand)
        html1 == ReplaceSections(processLiquid(layoutContent, brand), processedHeader,
                                 processedFooter, processedHero,
                                 processedFeaturedProducts)
        main1 == ReplaceSections(processedIndex, processedHeader, processedFooter,
                                 processedHero, processedFeaturedProducts)
        mainContent ==
            IF main1 = <<>> \/ main1 = processedIndex
            THEN processedHeader \o <<"<main>">> \o processedHero
                    \o processedFeaturedProducts \o <<"</main>">> \o processedFooter
            ELSE main1
        html2 == ReplaceFirst(html1, Placeholder("CONTENT_PLACEHOLDER"), mainContent)
        html3 ==
            IF layoutContent = <<>>
            THEN <<"<!DOCTYPE html>", "<html>", "<head>", "<meta>", "<title>",
                   BrandOrDefault(brand), "</title>", "</head>", "<body>">>
                    \o mainContent \o <<"</body>", "</html>">>
            ELSE html2
        baseStyles == <<"<style>">> \o colorCss(colors) \o <<"base">>
                        \o AllCssFrom(files, 1) \o <<"</style>">>
    IN IF FirstAt(html3, 1, <<"</head>">>) > 0
       THEN ReplaceFirst(html3, <<"</head>">>, baseStyles \o <<"</head>">>)
       ELSE <<"<head>">> \o baseStyles \o <<"</head>">> \o html3

\* The conventional paths, in the key order of the file-set.
Paths ==
    << "layout/theme.liquid", "templates/index.liquid", "sections/header.liquid",
       "sections/hero.liquid", "sections/featured-products.liquid",
       "sections/footer.liquid" >>

SectionPaths ==
    {"sections/header.liquid", "sections/hero.liquid",
     "sections/featured-products.liquid", "sections/footer.liquid"}

\* A well-formed file for each path.
Sample(path) ==
    CASE path = "layout/theme.liquid" ->
            <<"<html>", "<head>", "{{", "content_for_header", "}}", "</head>",
              "<body>", "{{", "content_for_layout", "}}", "</body>", "</html>">>
      [] path = "templates/index.liquid" -> <<"<h1>", "{{", "page_title", "}}">>
      [] path = "sections/header.liquid" -> <<"<header>", "{{", "shop.name", "}}">>
      [] path = "sections/hero.liquid" ->
            <<"{%", "if", "x", "%}", "<section>", "{%", "endif", "%}">>
      [] path = "sections/featured-products.liquid" ->
            <<"<ul>", "{%", "stylesheet", "%}", "css", "{%", "endstylesheet", "%}">>
      [] OTHER -> <<"<footer>">>

\* An index file that names its sections.
IndexWithSections ==
    <<"{%", "section", "'hero'", "%}", "{%", "section", "'footer'", "%}">>

\* What the one other file can hold: every text of at most MaxLen lexemes,
\* balanced or not.
Lexemes == {"{{", "}}", "{%", "%}", "x"}

Texts == UNION {[1..n -> Lexemes] : n \in 1..MaxLen}

\* A file whose inline style element holds an output expression.
StyledText == <<"<style>", "{{", "settings.color", "}}", "</style>", "<p>">>

\* The file-sets: the layout is there or not, the index is absent, plain or
\* names sections, the four sections are there; at most one file holds
\* another text than its sample.
FileSets ==
    LET Index == {<<>>, Sample("templates/index.liquid"), IndexWithSections}
        Full(lay, idx) ==
            [i \in 1..Len(Paths) |->
                <<Paths[i], CASE i = 1 -> lay [] i = 2 -> idx [] OTHER -> Sample(Paths[i])>>]
        Keep(f) == SelectSeq(f, LAMBDA e : e[2] # <<>>)
        Base == {Full(lay, idx) : lay \in {<<>>, Sample(Paths[1])}, idx \in Index}
    IN {Keep(f) : f \in Base}
       \cup {Keep([f EXCEPT ![i] = <<Paths[i], t>>]) :
                f \in Base, i \in 1..Len(Paths), t \in Texts \cup {StyledText}}

ColorSchemes ==
    {NoColorScheme,
     [given |-> TRUE, primaryColor |-> "#111", secondaryColor |-> "#222",
      accentColor |-> "#333"],
     [given |-> TRUE, primaryColor |-> "#FFF", secondaryColor |-> "#111",
      accentColor |-> "#111"]}

BrandNames == {"undefined", "Acme"}

DEVICE_VIEWPORTS == {"desktop", "tablet", "mobile"}

MaxRenders == 2    \* evaluations of the previewHtml memo in one run

PreviewIdle ==
    /\ liquidFiles = <<>>
    /\ colorScheme = NoColorScheme
    /\ brandName = "undefined"
    /\ device = "desktop"
    /\ renders = 0
    /\ outputs = {}

\* The previewHtml memo is evaluated: generatePreviewHtml runs on the props.
Render ==
    /\ renders < MaxRenders
    /\ liquidFiles # <<>>
    /\ renders' = renders + 1
    /\ outputs' = outputs \cup {generatePreviewHtml(liquidFiles, colorScheme, brandName)}
    /\ UNCHANGED <<authVars, proxyVars, storeVars, previewProps, device, wizard>>

\* The user picks a viewport.
SetDevice(d) ==
    /\ device' = d
    /\ UNCHANGED <<authVars, proxyVars, storeVars, previewProps, renders, outputs, wizard>>

\* ---------------------------------------------------------- WizardProvider

MaxChanges == 3    \* changes of currentStep or data in one run

MaxResets == 1     \* calls of resetWizard in one run

\* setTimeout(saveToStorage, 1000): the delay, in clock ticks.
AUTO_SAVE_DELAY == 3

\* The provider before its effects ran: nothing stored, no timer.  `data`
\* numbers the values of (currentStep, data), `quiet` counts the ticks since
\* the auto-save effect last ran, `writes` the writes of saveToStorage and
\* `saved` is what the last of them stored; `stored` says that localStorage
\* holds the progress key, `resets` counts the calls of resetWizard and
\* `fresh` says that nothing was changed since the last of them.
WizardIdle ==
    wizard = [mounted |-> FALSE, unmounted |-> FALSE, isLoading |-> TRUE,
              data |-> 0, timers |-> {}, quiet |-> 0, writes |-> 0, saved |-> 0,
              stored |-> FALSE, resets |-> 0, fresh |-> FALSE]

keepTimers(timers) == timers

\* The cleanup of the auto-save effect: clearTimeout(timeoutId).
clearTimers(timers) == {}

\* The auto-save effect body on data d: one new timer whose callback holds d.
AutoSaveEffect(w, d) ==
    [w EXCEPT !.data = d, !.quiet = 0,
              !.timers = clearTimers(w.timers)
                            \cup {[remaining |-> AUTO_SAVE_DELAY, data |-> d]}]

\* Mount: the load effect ends with setIsLoading(false), which makes the
\* auto-save effect run for the first time.
WizardMount ==
    /\ ~wizard.mounted /\ ~wizard.unmounted
    /\ wizard' = AutoSaveEffect([wizard EXCEPT !.mounted = TRUE, !.isLoading = FALSE],
                                wizard.data)
    /\ UNCHANGED <<authVars, proxyVars, storeVars, previewVars>>

\* updateData, nextStep, ...: currentStep or data changes; the effect's
\* cleanup runs and the effect runs again.
WizardChange ==
    /\ wizard.mounted /\ wizard.data < MaxChanges
    /\ wizard' = AutoSaveEffect([wizard EXCEPT !.fresh = FALSE], wizard.data + 1)
    /\ UNCHANGED <<authVars, proxyVars, storeVars, previewVars>>

\* One tick of the clock; a timer that is due fires before the next tick.
WizardTick ==
    /\ \A t \in wizard.timers : t.remaining > 0
    /\ wizard.timers # {} \/ wizard.quiet < AUTO_SAVE_DELAY
    /\ wizard' = [wizard EXCEPT
          !.timers = {[t EXCEPT !.remaining = @ - 1] : t \in wizard.timers},
          !.quiet = IF @ < AUTO_SAVE_DELAY THEN @ + 1 ELSE @]
    /\ UNCHANGED <<authVars, proxyVars, storeVars, previewVars>>

\* A due timer runs saveToStorage: localStorage.setItem with the data of its
\* closure.
WizardSave ==
    /\ \E t \in wizard.timers :
          /\ t.remaining = 0
          /\ wizard' = [wizard EXCEPT !.timers = @ \ {t}, !.writes = @ + 1,
                                      !.saved = t.data, !.stored = TRUE]
    /\ UNCHANGED <<authVars, proxyVars, storeVars, previewVars>>

\* resetWizard(): step 0 and the default data (numbered 0) are set and the
\* progress key is removed.  When that changes currentStep or data the
\* auto-save effect runs again; when both already had these values React
\* renders nothing and the timer that is pending stays.
ResetWizard ==
    /\ wizard.mounted /\ wizard.resets < MaxResets
    /\ LET w == [wizard EXCEPT !.stored = FALSE, !.resets = @ + 1, !.fresh = TRUE]
       IN wizard' = IF wizard.data # 0 THEN AutoSaveEffect(w, 0) ELSE w
    /\ UNCHANGED <<authVars, proxyVars, storeVars, previewVars>>

\* The provider is unmounted: the cleanup of the effect runs.
WizardUnmount ==
    /\ wizard.mounted
    /\ wizard' = [wizard EXCEPT !.mounted = FALSE, !.unmounted = TRUE,
                                !.timers = clearTimers(@)]
    /\ UNCHANGED <<authVars, proxyVars, storeVars, previewVars>>

\* ----------------------------------------------------------- specification

InitialCookies ==
    {c \in [access : {Null} \cup CookieTokens, refresh : {Null} \cup CookieTokens] :
        c.access = Null \/ c.refresh = Null \/ c.access = c.refresh}

Init ==
    /\ variant \in {"cookies", "server"}
    /\ tokens = EmptyTokens
    /\ isRefreshing = FALSE
    /\ refreshQueue = <<>>
    /\ listening = FALSE
    /\ cookies \in InitialCookies
    /\ mounted = FALSE
    /\ onAuthRedirect = FALSE
    /\ auth = [isLoading |-> TRUE, isAuthenticated |-> FALSE, shopDomain |-> Null]
    /\ proactiveRefreshStarted = FALSE
    /\ refreshAttempted = FALSE
    /\ issued = 0
    /\ proc = [p \in Procs |-> IdleProc]
    /\ ProxyIdle
    /\ StoreIdle
    /\ PreviewIdle
    /\ WizardIdle

Next ==
    \/ ProviderMount
    \/ \E p \in Procs, o \in RefreshOutcomes : RefreshSettle(p, o)
    \/ \E p \in Callers : RefreshAccessToken(p)
    \/ \E p \in Callers : GetValidAccessToken(p)
    \/ \E p \in Callers : FetchStart(p)
    \/ \E p \in Callers, r \in Responses \cup {NetworkError} : FetchResponse1(p, r)
    \/ \E p \in Callers, r \in Responses \cup {NetworkError} : FetchResponse2(p, r)
    \/ \E p \in Callers : LogoutStart(p)
    \/ \E p \in Callers, o \in LogoutOutcomes : LogoutSettle(p, o)
    \/ \E p \in Callers : CheckTokensStart(p)
    \/ \E p \in Callers : CheckAuthStart(p)
    \/ \E p \in Callers, o \in StatusOutcomes : SyncStatus(p, o)
    \/ \E p \in Callers, o \in RefreshOutcomes : SyncRefresh(p, o)

Spec == Init /\ [][Next]_vars

\* The token lifecycle at rest: a page without session cookies, before any
\* effect has run.
AuthIdle ==
    /\ variant = "cookies"
    /\ tokens = EmptyTokens
    /\ isRefreshing = FALSE
    /\ refreshQueue = <<>>
    /\ listening = FALSE
    /\ cookies = NoCookies
    /\ mounted = FALSE
    /\ onAuthRedirect = FALSE
    /\ auth = [isLoading |-> TRUE, isAuthenticated |-> FALSE, shopDomain |-> Null]
    /\ proactiveRefreshStarted = FALSE
    /\ refreshAttempted = FALSE
    /\ issued = 0
    /\ proc = [p \in Procs |-> IdleProc]

\* The proxy on every request of the bounded path and cookie sets.
InitProxy ==
    /\ AuthIdle
    /\ StoreIdle
    /\ PreviewIdle
    /\ WizardIdle
    /\ request \in Requests
    /\ response = NoResponse

NextProxy == Proxy

SpecProxy == InitProxy /\ [][NextProxy]_vars

\* What the module-level store can hold when the mount effect of AuthProvider
\* runs (again): nothing, or what setTokens or initFromCookies left there.
PriorStores ==
    {EmptyTokens} \cup
    [accessToken : {Null} \cup CookieTokens, refreshToken : CookieTokens,
     shopDomain : {Null, Shop}]

\* Initialisation on every prior store and every cookie pair.
InitMount ==
    /\ variant \in {"cookies", "server"}
    /\ tokens \in PriorStores
    /\ isRefreshing = FALSE
    /\ refreshQueue = <<>>
    /\ listening = FALSE
    /\ cookies \in InitialCookies
    /\ mounted = FALSE
    /\ onAuthRedirect = FALSE
    /\ auth = [isLoading |-> TRUE, isAuthenticated |-> FALSE, shopDomain |-> Null]
    /\ proactiveRefreshStarted = FALSE
    /\ refreshAttempted = FALSE
    /\ issued = 0
    /\ proc = [p \in Procs |-> IdleProc]
    /\ ProxyIdle
    /\ StoreIdle
    /\ PreviewIdle
    /\ WizardIdle

NextMount ==
    \/ ProviderMount
    \/ \E o \in RefreshOutcomes : RefreshSettle(Provider, o)

SpecMount == InitMount /\ [][NextMount]_vars

\* The store and its listeners, driven by every sequence of store calls.
InitStore ==
    /\ AuthIdle
    /\ ProxyIdle
    /\ StoreIdle
    /\ PreviewIdle
    /\ WizardIdle

NextStore ==
    \/ \E a, r \in TokenArgs, s \in ShopArgs : SetTokens(a, r, s)
    \/ ClearTokens
    \/ \E l \in ListenerIds : AddTokenChangeListener(l)
    \/ \E l \in ListenerIds : Unsubscribe(l)
    \/ HasValidTokenState

SpecStore == InitStore /\ [][NextStore]_vars

\* The store with the calls of syncFromCookies added.
NextSync ==
    \/ NextStore
    \/ \E c \in [access : TokenArgs, refresh : TokenArgs] : SyncFromCookies(c)

SpecSync == InitStore /\ [][NextSync]_vars

\* The cookie-reading build under every evolution of the cookies.
InitCookies == Init /\ variant = "cookies"

NextCookies ==
    \/ ProviderMount
    \/ \E c \in InitialCookies : CookiesChange(c)
    \/ RecheckAuth
    \/ \E p \in Callers : RefreshAccessToken(p)
    \/ \E p \in Procs, o \in RefreshOutcomes : RefreshSettle(p, o)
    \/ \E p \in Callers : LogoutStart(p)
    \/ \E p \in Callers, o \in LogoutOutcomes : LogoutSettle(p, o)

SpecCookies == InitCookies /\ [][NextCookies]_vars

\* The fine guard after one path change: the provider mounts, the
\* navigation effect and the checkAuth effect run, and every request that
\* was sent is answered.
Navigate(p) ==
    /\ \A q \in Callers : proc[q].op # "check1"
    /\ CheckTokensStart(p)

NextGuard ==
    \/ ProviderMount
    \/ \E p \in Callers : Navigate(p)
    \/ \E p \in Callers : CheckAuthStart(p)
    \/ \E p \in Callers, o \in StatusOutcomes : SyncStatus(p, o)
    \/ \E p \in Callers, o \in RefreshOutcomes : SyncRefresh(p, o)
    \/ \E p \in Procs, o \in RefreshOutcomes : RefreshSettle(p, o)

SpecGuard ==
    /\ Init /\ [][NextGuard]_vars
    /\ WF_vars(ProviderMount)
    /\ WF_vars(\E p \in Callers : CheckAuthStart(p))
    /\ WF_vars(\E p \in Callers, o \in StatusOutcomes : SyncStatus(p, o))
    /\ WF_vars(\E p \in Callers, o \in RefreshOutcomes : SyncRefresh(p, o))
    /\ WF_vars(\E p \in Procs, o \in RefreshOutcomes : RefreshSettle(p, o))

\* logout() next to the refresh, where the logout request may stay
\* unanswered for ever: fetch() is given no timeout and no abort signal.
NextLogout ==
    \/ ProviderMount
    \/ \E p \in Callers : RefreshAccessToken(p)
    \/ \E p \in Procs, o \in RefreshOutcomes : RefreshSettle(p, o)
    \/ \E p \in Callers : LogoutStart(p)
    \/ \E p \in Callers, o \in LogoutOutcomes : LogoutSettle(p, o)

SpecLogout ==
    /\ Init /\ [][NextLogout]_vars
    /\ WF_vars(ProviderMount)
    /\ WF_vars(\E p \in Procs, o \in RefreshOutcomes : RefreshSettle(p, o))

\* The callers of refreshAccessToken(), with listeners that call it again
\* while the result is applied; a request that was sent is answered.
NextRefresh ==
    \/ ProviderMount
    \/ \E p \in Callers : RefreshAccessToken(p)
    \/ \E p \in Callers : GetValidAccessToken(p)
    \/ \E p \in Callers : FetchStart(p)
    \/ \E p \in Procs, o \in RefreshOutcomes,
          js \in {<<>>} \cup {<<j>> : j \in Callers} : RefreshSettleJoined(p, o, js)

RefreshAnswered ==
    WF_vars(\E p \in Procs, o \in RefreshOutcomes,
               js \in {<<>>} \cup {<<j>> : j \in Callers} : RefreshSettleJoined(p, o, js))

SpecRefresh == Init /\ [][NextRefresh]_vars /\ RefreshAnswered

\* The preview of every file-set, colour scheme and brand name.
InitPreview ==
    /\ AuthIdle
    /\ ProxyIdle
    /\ StoreIdle
    /\ liquidFiles \in FileSets
    /\ colorScheme \in ColorSchemes
    /\ brandName \in BrandNames
    /\ device = "desktop"
    /\ renders = 0
    /\ outputs = {}
    /\ WizardIdle

NextPreview ==
    \/ Render
    \/ \E d \in DEVICE_VIEWPORTS : SetDevice(d)

SpecPreview == InitPreview /\ [][NextPreview]_vars

\* The wizard: changes, clock ticks, the timer and unmounting in any order.
InitWizard ==
    /\ AuthIdle
    /\ ProxyIdle
    /\ StoreIdle
    /\ PreviewIdle
    /\ WizardIdle

NextWizard ==
    \/ WizardMount
    \/ WizardChange
    \/ WizardTick
    \/ WizardSave
    \/ ResetWizard
    \/ WizardUnmount

SpecWizard == InitWizard /\ [][NextWizard]_vars

\* ------------------------------------------------------------------- claims

\* A path the application protects: /dashboard, /wizard and what lies below.
IsProtectedPath(pathname) == pathname[1] \in {"dashboard", "wizard"}

RefreshWaitPcs == {"r_net", "r_queued"}

\* ------------------------------------------------------------ fine guard

\* The guard call of p has a refresh request of its own on the wire: the
\* POST /auth/refresh of syncFromServer, or a refreshAccessToken() it started
\* or joined.
GuardAttempting(p) ==
    /\ proc[p].op \in {"check1", "check2"}
    /\ proc[p].pc \in {"s_refresh"} \cup RefreshWaitPcs

\* q is the checkAuth run of the navigation whose checkAndRefreshTokens run
\* is p: no path change (which always starts a new check1) came in between.
SameNavigation(p, q) ==
    /\ p < q
    /\ proc[p].op = "check1" /\ proc[q].op = "check2"
    /\ \A k \in Callers : (p < k /\ k < q) => proc[k].op # "check1"

\* C12: for one navigation the fine guard makes one refresh attempt: the two
\* guard checks of the same navigation never both have a refresh attempt
\* under way.
C12_OneAttemptPerNavigation ==
    \A p, q \in Callers :
        SameNavigation(p, q) => ~(GuardAttempting(p) /\ GuardAttempting(q))

\* The local state `const [isRefreshing] = useState(false)` of ProtectedRoute:
\* it has no setter, so every render reads FALSE.
guardIsRefreshing == FALSE

\* What ProtectedRoute returns for the provider state a.
ProtectedRoute(a) ==
    IF a.isLoading \/ guardIsRefreshing THEN "skeleton"
    ELSE IF ~a.isAuthenticated THEN "skeleton"
    ELSE "children"

\* The guard call of p is between its first request and its last answer.
GuardChecking(p) ==
    /\ proc[p].op \in {"check1", "check2"}
    /\ proc[p].pc \in {"s_status", "s_refresh"} \cup RefreshWaitPcs

\* C13: while a check or a refresh of the fine guard is under way only the
\* skeleton is rendered, never the protected children.
C13_SkeletonWhileChecking ==
    \A p \in Callers : GuardChecking(p) => ProtectedRoute(auth) = "skeleton"

\* C14: when initialisation finds no session cookie at all, the store ends
\* all-null, whatever it held before.
C14_NoCredentialsAllNull ==
    (mounted /\ cookies = NoCookies) => tokens = EmptyTokens

\* C15: getValidAccessToken() returns the stored access token without a
\* network call when the store has one; with a refresh token only it starts a
\* refresh, or joins the one in flight, and returns the token that refresh
\* stored; with neither it fails with the no-credentials error, sends nothing
\* and leaves the store as it was.
C15_GetValidAccessToken ==
    [][\A p \in Callers :
          /\ (proc[p].op = "idle" /\ proc'[p].op = "gvat") =>
                IF tokens.accessToken # Null
                THEN /\ proc'[p].pc = "done"
                     /\ proc'[p].result = TokenResult(tokens.accessToken)
                     /\ proc'[p].nRefresh = 0
                     /\ UNCHANGED <<tokens, isRefreshing, refreshQueue>>
                ELSE IF tokens.refreshToken # Null
                THEN /\ proc'[p].nRefresh = 1
                     /\ proc'[p].pc = IF isRefreshing THEN "r_queued" ELSE "r_net"
                     /\ isRefreshing'
                     /\ tokens' = tokens
                ELSE /\ proc'[p].pc = "done"
                     /\ proc'[p].result = ErrorResult("NO_CREDENTIALS")
                     /\ proc'[p].nRefresh = 0
                     /\ UNCHANGED <<tokens, isRefreshing, refreshQueue>>
          /\ (/\ proc[p].op = "gvat" /\ proc[p].pc \in RefreshWaitPcs
              /\ proc'[p].pc = "done" /\ proc'[p].rok = "ok") =>
                /\ tokens'.accessToken # Null
                /\ proc'[p].result = TokenResult(tokens'.accessToken)]_vars

\* One getValidAccessToken() call got its token from the refresh it started,
\* a later one got the stored token without refreshing.
C15_Witness ==
    \E p, q \in Callers :
        /\ proc[p].op = "gvat" /\ proc[p].pc = "done"
        /\ proc[p].nRefresh = 1 /\ proc[p].rok = "ok"
        /\ proc[p].result.kind = "token"
        /\ proc[q].op = "gvat" /\ proc[q].pc = "done"
        /\ proc[q].nRefresh = 0
        /\ proc[q].result = TokenResult(tokens.accessToken)

\* C16: hasValidTokenState() returns false exactly when the store holds an
\* access token and no refresh token; it returns true for the three other
\* combinations.
C16_ValidTokenState ==
    call.op = "hasValidTokenState" =>
        (call.ret = "false" <=>
            (tokens.accessToken # Null /\ tokens.refreshToken = Null))

\* hasValidTokenState() has just returned false on a store that holds an
\* access token only.
C16_Witness ==
    /\ call.op = "hasValidTokenState" /\ call.ret = "false"
    /\ tokens.accessToken # Null /\ tokens.refreshToken = Null

\* C17: every setTokens and clearTokens replaces the whole triple and calls
\* every subscribed listener once with the new triple before it returns;
\* subscribing delivers nothing, and a listener that has unsubscribed is not
\* called any more.
C17_NotifyOnChange ==
    [][/\ call'.n # call.n =>
            /\ tokens' = IF call'.op = "setTokens"
                         THEN [accessToken |-> call'.a, refreshToken |-> call'.r,
                               shopDomain |-> IF call'.s = "shop" THEN Shop ELSE Null]
                         ELSE EmptyTokens
            /\ \A l \in ListenerIds :
                  heard'[l] = IF l \in tokenChangeListeners
                              THEN Append(heard[l], tokens') ELSE heard[l]
       /\ call'.n = call.n => heard' = heard]_vars

\* Listener "a" subscribed, heard the first change and unsubscribed before the
\* second; listener "b" subscribed after the first change and heard only the
\* second.
C17_Witness ==
    /\ call.n = 2
    /\ "a" \notin tokenChangeListeners /\ "b" \in tokenChangeListeners
    /\ Len(heard["a"]) = 1 /\ Len(heard["b"]) = 1
    /\ heard["b"][1] = tokens /\ heard["a"][1] # tokens

RECURSIVE ContainsInOrder(_, _, _)
\* From position i on, h holds the texts of parts one after the other.
ContainsInOrder(h, i, parts) ==
    IF parts = <<>> THEN TRUE
    ELSE IF Head(parts) = <<>> THEN ContainsInOrder(h, i, Tail(parts))
    ELSE LET a == FirstAt(h, i, Head(parts)) IN
         /\ a > 0
         /\ ContainsInOrder(h, a + Len(Head(parts)), Tail(parts))

\* What processLiquid makes of the file at path.
Processed(path) == processLiquid(FileContent(liquidFiles, path), brandName)

\* The text holds section-inclusion syntax.
NamesSections(t) == \E i \in 1..Len(t) : StartsAt(t, i, <<"{%", "section">>)

\* C18: for a file-set with a layout and the four sections whose index file
\* holds no section-inclusion syntax, the output holds the processed header,
\* hero, featured-products and footer, in this order.
C18_SectionsInOrder ==
    \A h \in outputs :
        (/\ FileContent(liquidFiles, "layout/theme.liquid") # <<>>
         /\ \A path \in SectionPaths : FileContent(liquidFiles, path) # <<>>
         /\ ~NamesSections(FileContent(liquidFiles, "templates/index.liquid")))
        => ContainsInOrder(h, 1, <<Processed("sections/header.liquid"),
                                   Processed("sections/hero.liquid"),
                                   Processed("sections/featured-products.liquid"),
                                   Processed("sections/footer.liquid")>>)

Unbalanced(t) ==
    LET Count(x) == Cardinality({i \in 1..Len(t) : t[i] = x})
    IN Count("{{") # Count("}}") \/ Count("{%") # Count("%}")

\* C20: when one file of the file-set holds unbalanced tag syntax, the output
\* is not empty and holds the processed content of every other section file.
C20_MalformedFileTolerated ==
    \A h \in outputs : \A i \in 1..Len(liquidFiles) :
        Unbalanced(liquidFiles[i][2]) =>
            /\ h # <<>>
            /\ \A path \in SectionPaths \ {liquidFiles[i][1]} :
                  ContainsInOrder(h, 1, <<Processed(path)>>)

\* C21: for a non-empty file-set and three supplied colours the output holds
\* the declarations of --color-primary, --color-secondary and --color-accent
\* with exactly the supplied values.
C21_ColorDeclarations ==
    \A h \in outputs :
        colorScheme.given =>
            ContainsInOrder(h, 1,
                << <<"--color-primary:", colorScheme.primaryColor, ";">>,
                   <<"--color-secondary:", colorScheme.secondaryColor, ";">>,
                   <<"--color-accent:", colorScheme.accentColor, ";">> >>)

\* A file-set was rendered with a scheme whose three colours are not all the
\* same.
C21_Witness ==
    /\ outputs # {} /\ colorScheme.given
    /\ colorScheme.primaryColor # colorScheme.secondaryColor

\* C22: the output holds no complete {% ... %} tag and no complete {{ ... }}
\* output expression, the injected style block included.
C22_NoRawSyntax ==
    \A h \in outputs : \A i \in 1..Len(h) :
        /\ Match([kind |-> "anytag", words |-> {}, with |-> <<>>], h, i) = 0
        /\ Match([kind |-> "anyoutput", words |-> {}, with |-> <<>>], h, i) = 0

\* C23: the auto-save writes only when a whole delay has passed since the
\* latest change, writes the latest data, never has more than one write
\* pending, and writes nothing once the provider is unmounted.
C23_DebouncedAutoSave ==
    [][/\ Cardinality(wizard'.timers) <= 1
       /\ wizard'.writes # wizard.writes =>
            /\ wizard.mounted
            /\ wizard.quiet = AUTO_SAVE_DELAY
            /\ wizard'.saved = wizard.data
            /\ wizard'.timers = {}
       /\ wizard'.unmounted => wizard'.timers = {}]_vars

\* Two changes that followed the mount less than the delay apart were stored
\* by the only write of the run.
C23_Witness ==
    /\ wizard.data = 2 /\ wizard.saved = 2 /\ wizard.writes = 1

\* C24: the store never holds an access token without a refresh token.
C24_NoAccessWithoutRefresh ==
    ~(tokens.accessToken # Null /\ tokens.refreshToken = Null)

\* C25: every step that changes the triple calls every subscribed listener
\* with the new triple.
C25_ChangeNotifies ==
    [][tokens' # tokens =>
          \A l \in tokenChangeListeners :
              heard'[l] = Append(heard[l], tokens')]_vars

\* C26: while the AuthProvider reports isAuthenticated, the store holds an
\* access token.
C26_AuthenticatedHasAccess ==
    auth.isAuthenticated => tokens.accessToken # Null

\* C27: the refresh queue is empty whenever isRefreshing is false, and
\* isRefreshing is true exactly while a request sent by refreshAccessToken()
\* is outstanding, whichever way the request ends.
C27_RefreshingFlag ==
    /\ ~isRefreshing => refreshQueue = <<>>
    /\ isRefreshing <=> \E p \in Procs : proc[p].pc = "r_net"

\* A caller waits in the queue while the request is outstanding.
C27_Witness ==
    /\ isRefreshing
    /\ refreshQueue # <<>>
    /\ \E p \in Procs : proc[p].pc = "r_net"

\* C28: when the refresh request is answered, every caller waiting in
\* refreshAccessToken(), the one that sent the request, one that was queued
\* or one queued from a listener while the result is applied, is settled.
C28_WaitersSettle ==
    \A p \in Procs : (proc[p].pc \in RefreshWaitPcs) ~> (proc[p].pc \notin RefreshWaitPcs)

\* A caller that sent the request and a caller that was queued were both
\* rejected with the same error.
C28_Witness ==
    \E p \in Callers, q \in Callers :
       /\ p # q
       /\ proc[p].op = "refresh" /\ proc[q].op = "refresh"
       /\ proc[p].pc = "done" /\ proc[q].pc = "done"
       /\ proc[p].nRefresh = 1 /\ proc[q].nRefresh = 1
       /\ proc[p].result = ErrorResult("REFRESH_FAILED")
       /\ proc[q].result = ErrorResult("REFRESH_FAILED")

\* C29: when the refresh request succeeds the store holds exactly the triple
\* the endpoint returned, and the initiator and every queued caller of
\* refreshAccessToken() resolve to the access token of that triple.
C29_SuccessfulRefresh ==
    [][\A p \in Procs :
          (proc[p].pc = "r_net" /\ proc'[p].pc # "r_net" /\ proc'[p].rok = "ok")
             => /\ tokens' = RefreshData(issued')
                /\ \A q \in Procs :
                      (/\ proc[q].pc \in RefreshWaitPcs
                       /\ proc[q].op \in {"gvat", "refresh"})
                         => /\ proc'[q].pc = "done"
                            /\ proc'[q].result =
                                  TokenResult(RefreshData(issued').accessToken)]_vars

\* The initiator and a queued caller of refreshAccessToken() both resolved to
\* the access token of the triple now in the store.
C29_Witness ==
    \E p \in Callers, q \in Callers :
       /\ p # q
       /\ proc[p].op = "refresh" /\ proc[q].op = "refresh"
       /\ proc[p].pc = "done" /\ proc[q].pc = "done"
       /\ proc[p].rok = "ok" /\ proc[q].rok = "ok"
       /\ issued = 1
       /\ tokens = RefreshData(issued)
       /\ proc[p].result = TokenResult(tokens.accessToken)
       /\ proc[q].result = TokenResult(tokens.accessToken)

\* C30: whatever the backend answers, one authenticatedFetch sends at most
\* two requests and calls refreshAccessToken() at most once in reaction to a
\* 401 (only when the first response is a 401 token problem); a 401 token
\* problem answering the retried request is returned as it is, with no
\* refresh, no request and no redirect after it.
C30_OneRecovery ==
    [][\A p \in Callers :
          /\ proc'[p].op = "fetch" => proc'[p].nReq <= 2
          /\ (proc[p].op = "fetch" /\ proc'[p].nRefresh # proc[p].nRefresh)
                => /\ proc[p].pc = "f_req1"
                   /\ proc'[p].cause = "token"
                   /\ proc'[p].nRefresh = proc[p].nRefresh + 1
          /\ (/\ proc[p].op = "fetch" /\ proc[p].pc = "f_req2"
              /\ proc'[p] # proc[p] /\ proc'[p].cause = "token")
                => /\ proc'[p].pc = "done"
                   /\ proc'[p].result.kind = "response"
                   /\ proc'[p].result.val = 401
                   /\ IsTokenProblem(proc'[p].result.code)
                   /\ proc'[p].nRefresh = proc[p].nRefresh
                   /\ proc'[p].nReq = 2
                   /\ proc'[p].nRedirect = 0
                   /\ tokens' = tokens /\ auth' = auth
                   /\ isRefreshing' = isRefreshing /\ refreshQueue' = refreshQueue]_vars

\* An authenticatedFetch that found an access token returned the 401
\* TOKEN_EXPIRED of its retried request after one refresh and two requests.
C30_Witness ==
    \E p \in Callers :
       /\ proc[p].op = "fetch" /\ proc[p].pc = "done"
       /\ proc[p].hadAccess
       /\ proc[p].cause = "token"
       /\ proc[p].result = [kind |-> "response", val |-> 401, code |-> "TOKEN_EXPIRED"]
       /\ proc[p].nRefresh = 1 /\ proc[p].nReq = 2 /\ proc[p].nRedirect = 0
       /\ tokens # EmptyTokens

\* C31: an authenticatedFetch fails with SESSION_EXPIRED only when its
\* refreshAccessToken() call was rejected; when the refresh succeeded and the
\* retried request gets no response at all, the store and the provider state
\* are left alone and the redirect callback is not called.
C31_RedirectOnlyOnRefreshFailure ==
    [][\A p \in Callers :
          (proc[p].op = "fetch" /\ proc'[p] # proc[p]) =>
             /\ proc'[p].result = ErrorResult("SESSION_EXPIRED") => proc'[p].rok = "err"
             /\ (proc[p].pc = "f_req2" /\ proc'[p].cause = "network")
                   => /\ tokens' = tokens /\ auth' = auth
                      /\ proc'[p].nRedirect = 0]_vars

\* C32: a call of authenticatedFetch that ends in an authentication failure
\* calls the registered redirect callback exactly once, the callback leaves
\* the store empty and the provider unauthenticated, and a call that starts
\* on the emptied store fails at once without refreshAccessToken() and
\* without a request.
C32_RedirectOnceAndClear ==
    [][\A p \in Callers :
          /\ (/\ proc'[p].op = "fetch" /\ proc'[p].pc = "done" /\ proc[p].pc # "done"
              /\ proc'[p].result.kind = "error"
              /\ proc'[p].result.code # "NETWORK_ERROR")
                => /\ proc'[p].nRedirect = IF onAuthRedirect THEN 1 ELSE 0
                   /\ onAuthRedirect => tokens' = EmptyTokens /\ auth' = Unauthenticated
          /\ (proc[p].op = "idle" /\ proc'[p].op = "fetch" /\ tokens = EmptyTokens)
                => /\ proc'[p].pc = "done"
                   /\ proc'[p].result = ErrorResult("NOT_AUTHENTICATED")
                   /\ proc'[p].nRefresh = 0 /\ proc'[p].nReq = 0
                   /\ isRefreshing' = isRefreshing]_vars

\* A call ended with SESSION_EXPIRED and one redirect; the call made after
\* it found the store empty and failed without a refresh.
C32_Witness ==
    \E p \in Callers, q \in Callers :
       /\ p < q
       /\ proc[p].op = "fetch" /\ proc[p].pc = "done"
       /\ proc[p].result = ErrorResult("SESSION_EXPIRED") /\ proc[p].nRedirect = 1
       /\ proc[q].op = "fetch" /\ proc[q].pc = "done"
       /\ proc[q].result = ErrorResult("NOT_AUTHENTICATED")
       /\ proc[q].nRefresh = 0 /\ proc[q].nReq = 0 /\ proc[q].nRedirect = 1
       /\ tokens = EmptyTokens

\* C33: once logout() was called the store becomes empty, whether or not the
\* logout request is ever answered.
C33_LogoutClearsWithoutAnswer ==
    \A p \in Callers : (proc[p].op = "logout") ~> (tokens = EmptyTokens)

\* C34: a refresh request that was in flight when the store was emptied does
\* not fill the store again when it is answered.  In the cookie-reading build
\* refreshAccessToken() sends nothing without a refresh token, so a request
\* in flight over an empty store was sent before the store was emptied.
C34_SupersededRefreshIgnored ==
    [][\A p \in Procs :
          (/\ variant = "cookies" /\ tokens = EmptyTokens
           /\ proc[p].pc = "r_net" /\ proc'[p].pc # "r_net")
             => tokens' = EmptyTokens]_vars

\* Some effect has sent the browser to /login: a guard check redirected or
\* caught the rejection of its refresh, or the provider found an access
\* cookie without a refresh cookie when it mounted.
GuardRedirected ==
    \/ \E q \in Procs : /\ proc[q].op \in {"check1", "check2", "proactive"}
                        /\ proc[q].pc = "done"
                        /\ proc[q].result \in {Redirected, Caught}
    \/ mounted /\ cookies.access # Null /\ cookies.refresh = Null

\* C35: after a path change the fine guard ends by rendering the children or
\* by redirecting to /login, once its requests have been answered.
C35_GuardLeavesChecking ==
    \A p \in Callers :
       (proc[p].op = "check1") ~> (ProtectedRoute(auth) = "children" \/ GuardRedirected)

\* The request carries a refresh-token cookie and no access-token cookie.
RefreshCookieOnly(req) == ~CookieTruthy(req.access) /\ CookieTruthy(req.refresh)

C37_NoRedirectLoop ==
    response.kind = "redirect"
       => proxy([request EXCEPT !.pathname = response.to]) = NextResponse

\* The proxy redirected a request for /login/x that carried an access token
\* to /dashboard.
C37_Witness ==
    /\ request.pathname = <<"login", "x">>
    /\ CookieTruthy(request.access)
    /\ response = RedirectResponse(<<"dashboard">>, NoParams)

\* C38: when the index file includes the hero and the footer by
\* section-inclusion tags, the output holds the processed hero and footer
\* where the tags stood and not the default composition (checked where the
\* file-set has no layout, so the main content is wrapped as it is).
C38_IncludedSectionsReplaceTags ==
    \A h \in outputs :
        (/\ FileContent(liquidFiles, "layout/theme.liquid") = <<>>
         /\ FileContent(liquidFiles, "templates/index.liquid") = IndexWithSections)
        => /\ ContainsInOrder(h, 1, <<Processed("sections/hero.liquid"),
                                      Processed("sections/footer.liquid")>>)
           /\ ~ContainsInOrder(h, 1, << <<"<main>">> >>)

\* C39: the markup enclosed by a conditional block is dropped: when the hero
\* file is `{% if x %} <section> {% endif %}`, neither its processed text nor
\* the output holds <section>.
C39_ConditionalContentsDropped ==
    \A h \in outputs :
        FileContent(liquidFiles, "sections/hero.liquid")
              = <<"{%", "if", "x", "%}", "<section>", "{%", "endif", "%}">>
        => /\ ~ContainsInOrder(Processed("sections/hero.liquid"), 1, << <<"<section>">> >>)
           /\ ~ContainsInOrder(h, 1, << <<"<section>">> >>)

\* C40: after resetWizard(), and until the next change, the wizard holds
\* step 0 and the default data and localStorage holds no progress key.
C40_ResetStaysCleared ==
    wizard.fresh => (wizard.data = 0 /\ ~wizard.stored)

\* C1: concurrent getValidAccessToken() calls that found no access token but
\* a refresh token (each returns the promise of refreshAccessToken(), as a
\* direct caller of refreshAccessToken() does) share one request to the
\* refresh endpoint: while any of them waits exactly one refreshAccessToken()
\* request is in flight, and they all settle in the same step, each after a
\* single refreshAccessToken() call, all with the identical new access token
\* or all with the same error.
C1_SingleFlight ==
    [][LET W == {p \in Callers : /\ proc[p].op \in {"gvat", "refresh"}
                                 /\ proc[p].pc \in RefreshWaitPcs}
       IN /\ W # {} => Cardinality({q \in Procs : proc[q].pc = "r_net"}) = 1
          /\ \A p \in W : proc'[p] # proc[p] =>
                \A q \in W :
                   /\ proc'[q].pc = "done"
                   /\ proc'[q].nRefresh = 1
                   /\ proc'[q].result = proc'[p].result
                   /\ proc'[q].result.kind \in {"token", "error"}
                   /\ proc'[q].result.kind = "token" =>
                         proc'[q].result.val = tokens'.accessToken]_vars

\* Two getValidAccessToken() callers both resolved, each after one
\* refreshAccessToken() call, to the same token.
C1_Witness ==
    \E p \in Callers, q \in Callers :
       /\ p # q
       /\ proc[p].op = "gvat" /\ proc[q].op = "gvat"
       /\ proc[p].pc = "done" /\ proc[q].pc = "done"
       /\ proc[p].nRefresh = 1 /\ proc[q].nRefresh = 1
       /\ proc[p].result.kind = "token"
       /\ proc[p].result = proc[q].result

\* C2: in every reachable state at most one request to the refresh endpoint
\* is in flight, whether refreshAccessToken() or syncFromServer() sent it.
C2_OneRefreshInFlight ==
    Cardinality({p \in Procs : proc[p].pc \in {"r_net", "s_refresh"}}) <= 1

\* C3: whenever the request of refreshAccessToken() ends in a failure (not OK,
\* success = false, no data, network exception, unparsable body) the store is
\* all null right after that step.
C3_FailedRefreshClears ==
    [][\A p \in Procs :
          (proc[p].pc = "r_net" /\ proc'[p].pc # "r_net" /\ proc'[p].rok = "err")
             => tokens' = EmptyTokens]_vars

\* A direct refreshAccessToken() call was rejected and the store is empty.
C3_Witness ==
    \E p \in Callers :
       /\ proc[p].op = "refresh" /\ proc[p].pc = "done"
       /\ proc[p].rok = "err"
       /\ proc[p].result.code \in {"REFRESH_FAILED", "network_error", "unparsable"}
       /\ tokens = EmptyTokens

\* C4: when the page starts with an access token but no refresh token, the
\* provider's initialisation (initFromCookies, then the hasValidTokenState
\* check) ends with the store all null and the provider unauthenticated.
C4_InvalidStartCleared ==
    [][(~mounted /\ mounted' /\ cookies.access # Null /\ cookies.refresh = Null)
          => /\ tokens' = EmptyTokens
             /\ auth' = Unauthenticated]_vars

\* The provider was initialised from an access cookie without a refresh cookie.
C4_Witness ==
    /\ mounted
    /\ cookies.access # Null /\ cookies.refresh = Null
    /\ tokens = EmptyTokens
    /\ ~auth.isAuthenticated /\ ~auth.isLoading

\* C5 as stated: every authenticatedFetch that returned the successful
\* response of its second request made exactly one refreshAccessToken() call.
C5_Original ==
    \A p \in Callers :
       (/\ proc[p].op = "fetch" /\ proc[p].pc = "done"
        /\ proc[p].result.kind = "response" /\ proc[p].result.val = 200
        /\ proc[p].nReq = 2)
          => proc[p].nRefresh = 1

\* C5, amended: a 401 token problem on the first request makes
\* authenticatedFetch call refreshAccessToken() once and send nothing; when
\* that refresh resolves it sends exactly one more request, carrying the
\* token the store now holds; the non-401 response to it is returned, after
\* two requests in all and, when the call found an access token in the store
\* at its start, after exactly one refreshAccessToken() call.
C5_RetryOnce ==
    [][\A p \in Callers :
          /\ (proc[p].op = "fetch" /\ proc[p].pc = "f_req1" /\ proc'[p].cause = "token")
                => /\ proc'[p].nRefresh = proc[p].nRefresh + 1
                   /\ proc'[p].nReq = 1
          /\ (/\ proc[p].op = "fetch" /\ proc[p].phase = "retry"
              /\ proc[p].pc \in RefreshWaitPcs
              /\ proc'[p].pc \notin RefreshWaitPcs /\ proc'[p].rok = "ok")
                => /\ proc'[p].pc = "f_req2"
                   /\ proc'[p].nReq = 2
                   /\ proc'[p].nRefresh = proc[p].nRefresh
                   /\ proc'[p].tok = tokens'.accessToken
          /\ (proc[p].op = "fetch" /\ proc[p].pc = "f_req2" /\ proc'[p].cause = "nonauth")
                => /\ proc'[p].pc = "done"
                   /\ proc'[p].result.kind = "response"
                   /\ proc'[p].nReq = 2
                   /\ proc'[p].hadAccess => proc'[p].nRefresh = 1]_vars

\* An authenticatedFetch that began with an access token returned the 200 of
\* its second request after one refresh.
C5_Witness ==
    \E p \in Callers :
       /\ proc[p].op = "fetch" /\ proc[p].pc = "done"
       /\ proc[p].hadAccess
       /\ proc[p].result.kind = "response" /\ proc[p].result.val = 200
       /\ proc[p].nReq = 2 /\ proc[p].nRefresh = 1

\* C6 as stated: every authenticatedFetch that received a response other
\* than a 401 returned it having made no refreshAccessToken() call, one
\* request only, and no call of the redirect callback.
C6_Original ==
    \A p \in Callers :
       (proc[p].op = "fetch" /\ proc[p].pc = "done" /\ proc[p].cause = "nonauth")
          => /\ proc[p].result.kind = "response"
             /\ proc[p].nRefresh = 0
             /\ proc[p].nReq = 1
             /\ proc[p].nRedirect = 0

\* C6, amended: a response other than a 401, to the first request or to the
\* retried one, is returned as it is, and handling it makes no
\* refreshAccessToken() call, sends no request, does not call the redirect
\* callback and leaves the store, the provider state and the refresh queue
\* alone; when it answers the first request of a call that found an access
\* token in the store, the whole call made no refresh and one request.
C6_PassThrough ==
    [][\A p \in Callers :
          (/\ proc[p].op = "fetch" /\ proc[p].pc \in {"f_req1", "f_req2"}
           /\ proc'[p].cause = "nonauth")
             => /\ proc'[p].pc = "done"
                /\ proc'[p].result.kind = "response"
                /\ proc'[p].result.val # 401
                /\ proc'[p].nRefresh = proc[p].nRefresh
                /\ proc'[p].nReq = proc[p].nReq
                /\ proc'[p].nRedirect = 0
                /\ tokens' = tokens /\ auth' = auth
                /\ isRefreshing' = isRefreshing /\ refreshQueue' = refreshQueue
                /\ (proc[p].pc = "f_req1" /\ proc[p].hadAccess)
                      => proc'[p].nRefresh = 0 /\ proc'[p].nReq = 1]_vars

\* An authenticatedFetch returned the 400 of its only request while the
\* store still holds tokens.
C6_Witness ==
    \E p \in Callers :
       /\ proc[p].op = "fetch" /\ proc[p].pc = "done"
       /\ proc[p].cause = "nonauth"
       /\ proc[p].result = [kind |-> "response", val |-> 400, code |-> "VALIDATION_ERROR"]
       /\ proc[p].nRefresh = 0 /\ proc[p].nReq = 1 /\ proc[p].nRedirect = 0
       /\ tokens # EmptyTokens

\* What C7 requires of the step of caller p: the redirect callback ran if one
\* is registered, the call failed with NOT_AUTHENTICATED, no request was sent.
NotAuthenticatedStep(p) ==
    /\ proc'[p].pc = "done"
    /\ proc'[p].result = ErrorResult("NOT_AUTHENTICATED")
    /\ proc'[p].nReq = 0
    /\ proc'[p].nRedirect = IF onAuthRedirect THEN 1 ELSE 0
    /\ onAuthRedirect => tokens' = EmptyTokens /\ auth' = Unauthenticated

\* C7: when authenticatedFetch finds neither token in the store, or finds a
\* refresh token only and the refresh it awaits fails, it calls the redirect
\* callback (if registered), fails with NOT_AUTHENTICATED and sends no request.
C7_NotAuthenticated ==
    [][\A p \in Callers :
          /\ (/\ proc[p].op = "idle" /\ proc'[p].op = "fetch"
              /\ tokens.accessToken = Null /\ tokens.refreshToken = Null)
                => NotAuthenticatedStep(p)
          /\ (/\ proc[p].op = "fetch" /\ proc[p].phase = "pre"
              /\ proc[p].pc \in RefreshWaitPcs
              /\ proc'[p].pc \notin RefreshWaitPcs /\ proc'[p].rok = "err")
                => NotAuthenticatedStep(p)]_vars

\* One authenticatedFetch failed at once on an empty store, another after
\* the refresh it waited for was rejected; the callback ran for both.
C7_Witness ==
    /\ \E p \in Callers :
          /\ proc[p].op = "fetch" /\ proc[p].pc = "done"
          /\ proc[p].result.code = "NOT_AUTHENTICATED"
          /\ proc[p].rok = "err" /\ proc[p].nReq = 0 /\ proc[p].nRedirect = 1
    /\ \E p \in Callers :
          /\ proc[p].op = "fetch" /\ proc[p].pc = "done"
          /\ proc[p].result.code = "NOT_AUTHENTICATED"
          /\ proc[p].rok = "none" /\ proc[p].nReq = 0 /\ proc[p].nRedirect = 1

\* C8: when the first response is a 401 token problem and the
\* refreshAccessToken() call that follows rejects (at once, or when its
\* request ends), authenticatedFetch calls the redirect callback, fails with
\* SESSION_EXPIRED and sends no second request.
C8_SessionExpired ==
    [][\A p \in Callers :
          (/\ proc[p].op = "fetch"
           /\ \/ proc[p].pc = "f_req1"
              \/ (proc[p].pc \in RefreshWaitPcs /\ proc[p].phase = "retry")
           /\ proc'[p].pc \notin RefreshWaitPcs
           /\ proc'[p].cause = "token" /\ proc'[p].rok = "err")
             => /\ proc'[p].pc = "done"
                /\ proc'[p].result = ErrorResult("SESSION_EXPIRED")
                /\ proc'[p].nReq = 1
                /\ proc'[p].nRedirect = IF onAuthRedirect THEN 1 ELSE 0
                /\ onAuthRedirect => tokens' = EmptyTokens /\ auth' = Unauthenticated]_vars

\* An authenticatedFetch gave up with SESSION_EXPIRED after one request and
\* a rejected refresh.
C8_Witness ==
    \E p \in Callers :
       /\ proc[p].op = "fetch" /\ proc[p].pc = "done"
       /\ proc[p].cause = "token" /\ proc[p].rok = "err"
       /\ proc[p].result = ErrorResult("SESSION_EXPIRED")
       /\ proc[p].nReq = 1 /\ proc[p].nRedirect = 1

\* C9: when the response to the request is a 401 whose error type is none of
\* TOKEN_EXPIRED, NO_TOKEN, INVALID_TOKEN, authenticatedFetch calls the
\* redirect callback and fails with the error type of the response (or
\* AUTH_ERROR), without a refreshAccessToken() call and without a retry.
C9_OtherAuthError ==
    [][\A p \in Callers :
          (proc[p].op = "fetch" /\ proc[p].pc = "f_req1" /\ proc'[p].cause = "other")
             => /\ proc'[p].pc = "done"
                /\ proc'[p].result.kind = "error"
                /\ proc'[p].result.code \in {"FORBIDDEN", "AUTH_ERROR", "UNKNOWN"}
                /\ proc'[p].nRefresh = proc[p].nRefresh
                /\ proc'[p].nReq = 1
                /\ proc'[p].nRedirect = IF onAuthRedirect THEN 1 ELSE 0
                /\ isRefreshing' = isRefreshing /\ refreshQueue' = refreshQueue
                /\ onAuthRedirect => tokens' = EmptyTokens /\ auth' = Unauthenticated]_vars

\* An authenticatedFetch failed with FORBIDDEN after one request, no refresh
\* and one call of the redirect callback.
C9_Witness ==
    \E p \in Callers :
       /\ proc[p].op = "fetch" /\ proc[p].pc = "done"
       /\ proc[p].cause = "other"
       /\ proc[p].result = ErrorResult("FORBIDDEN")
       /\ proc[p].nReq = 1 /\ proc[p].nRefresh = 0 /\ proc[p].nRedirect = 1

\* C10: in the step that completes logout() the store becomes all null,
\* whether the logout request succeeded, returned a failure status or threw,
\* and also when no shop domain was known and no request was sent.
C10_LogoutEmptiesStore ==
    [][\A p \in Callers :
          (proc'[p].op = "logout" /\ proc'[p].pc = "done" /\ proc[p].pc # "done")
             => /\ tokens' = EmptyTokens
                /\ proc'[p].result = Returned]_vars

\* One logout() completed after its request, another without a shop domain.
C10_Witness ==
    /\ \E p \in Callers :
          proc[p].op = "logout" /\ proc[p].pc = "done" /\ proc[p].nReq = 1
    /\ \E p \in Callers :
          proc[p].op = "logout" /\ proc[p].pc = "done" /\ proc[p].nReq = 0
    /\ tokens = EmptyTokens

====
